---- MODULE Spec2Model ----
(***************************************************************************)
(* Model of the leaderboard/log comparison tool: the two format parsers,   *)
(* the record store kept by the page, the uploader's drops and removals,   *)
(* and the metrics engine.                                                 *)
(*                                                                         *)
(* Strings are sequences of one-character strings, so that parseFloat,     *)
(* parseInt, split and the regular expressions are computed character by   *)
(* character.  Numbers are exact decimals m * 10^-e (normalised), NaN is a *)
(* value of its own, and null is a third one.                              *)
(***************************************************************************)
EXTENDS Integers, Sequences, FiniteSets, TLC

VARIABLES
    logContent,     \* SpecParse: the lines of the log file handed to parseLogEntries
    logResult,      \* SpecParse: what parseLogEntries returned
    lbDoc,          \* SpecParse: the document handed to parseLeaderboardHtmlToUnifiedData
    lbResult,       \* SpecParse: what parseLeaderboardHtmlToUnifiedData returned
    masterData,     \* page.tsx: the record store
    sources,        \* CombinedFileUploader: the sources map (React state)
    drops,          \* CombinedFileUploader: the running and finished onDrop calls
    data,           \* SpecMetrics: the record list handed to calculateUnifiedMetrics
    metrics,        \* SpecMetrics: the map it returned
    nameArg,        \* SpecName: the string handed to parseGenericInstanceName
    nameResult,     \* SpecName: what parseGenericInstanceName returned
    outliers,       \* SpecOutliers: what findProblemOutliers returned for data
    comparison      \* SpecOutliers: what InstanceComparisonTable shows for data

vars == <<logContent, logResult, lbDoc, lbResult, masterData, sources, drops,
          data, metrics, nameArg, nameResult, outliers, comparison>>

----------------------------------------------------------------------------
(* Numbers: number | NaN | null                                            *)

RECURSIVE Pow10(_)
Pow10(k) == IF k = 0 THEN 1 ELSE 10 * Pow10(k - 1)

RECURSIVE Norm(_, _)
Norm(m, e) ==
    IF e > 0 /\ m % 10 = 0 THEN Norm(m \div 10, e - 1)
    ELSE [t |-> "num", m |-> m, e |-> e]

Num(m) == [t |-> "num", m |-> m, e |-> 0]
NaN == [t |-> "nan", m |-> 0, e |-> 0]
Null == [t |-> "null", m |-> 0, e |-> 0]

IsNumber(x) == x.t = "num"

\* a < b, a > b, a === b on JS numbers: every comparison with NaN is false
Lt(a, b) == a.t = "num" /\ b.t = "num" /\ a.m * Pow10(b.e) < b.m * Pow10(a.e)
StrictEq(a, b) == a.t = "num" /\ b.t = "num" /\ a.m * Pow10(b.e) = b.m * Pow10(a.e)

Max(a, b) == IF a >= b THEN a ELSE b

\* a + b on JS numbers
Add(a, b) ==
    IF a.t = "num" /\ b.t = "num"
    THEN LET e == Max(a.e, b.e)
         IN  Norm(a.m * Pow10(e - a.e) + b.m * Pow10(e - b.e), e)
    ELSE NaN

----------------------------------------------------------------------------
(* Strings                                                                 *)

Digits == {"0", "1", "2", "3", "4", "5", "6", "7", "8", "9"}
WhiteSpace == {" "}

DigitVal(c) ==
    CASE c = "0" -> 0 [] c = "1" -> 1 [] c = "2" -> 2 [] c = "3" -> 3
      [] c = "4" -> 4 [] c = "5" -> 5 [] c = "6" -> 6 [] c = "7" -> 7
      [] c = "8" -> 8 [] c = "9" -> 9

DigitChar(d) ==
    CASE d = 0 -> "0" [] d = 1 -> "1" [] d = 2 -> "2" [] d = 3 -> "3"
      [] d = 4 -> "4" [] d = 5 -> "5" [] d = 6 -> "6" [] d = 7 -> "7"
      [] d = 8 -> "8" [] d = 9 -> "9"

Drop(s, n) == SubSeq(s, n + 1, Len(s))
Take(s, n) == SubSeq(s, 1, n)

RECURSIVE TrimStart(_)
TrimStart(s) ==
    IF s # <<>> /\ s[1] \in WhiteSpace THEN TrimStart(Tail(s)) ELSE s

RECURSIVE TrimEnd(_)
TrimEnd(s) ==
    IF s # <<>> /\ s[Len(s)] \in WhiteSpace THEN TrimEnd(Take(s, Len(s) - 1)) ELSE s

Trim(s) == TrimEnd(TrimStart(s))

\* the longest prefix of s made of digits
RECURSIVE DigitPrefix(_)
DigitPrefix(s) ==
    IF s # <<>> /\ s[1] \in Digits THEN <<s[1]>> \o DigitPrefix(Tail(s)) ELSE <<>>

RECURSIVE DigitsToInt(_)
DigitsToInt(s) ==
    IF s = <<>> THEN 0 ELSE 10 * DigitsToInt(Take(s, Len(s) - 1)) + DigitVal(s[Len(s)])

RECURSIVE NatToChars(_)
NatToChars(n) ==
    IF n < 10 THEN <<DigitChar(n)>> ELSE NatToChars(n \div 10) \o <<DigitChar(n % 10)>>

\* String(n) for an integer n
IntToChars(n) == IF n < 0 THEN <<"-">> \o NatToChars(-n) ELSE NatToChars(n)

\* parseFloat(s) for a string s: leading white space is skipped, then the longest
\* prefix that is a decimal literal is read; NaN when there is none.  (Exponents and
\* the word Infinity use letters the input alphabets below do not hold.)
ParseFloat(s) ==
    LET t == TrimStart(s)
        neg == t # <<>> /\ t[1] = "-"
        u == IF t # <<>> /\ t[1] \in {"-", "+"} THEN Tail(t) ELSE t
        ip == DigitPrefix(u)
        r == Drop(u, Len(ip))
        fp == IF r # <<>> /\ r[1] = "." THEN DigitPrefix(Tail(r)) ELSE <<>>
        mant == DigitsToInt(ip \o fp)
    IN  IF ip = <<>> /\ fp = <<>> THEN NaN
        ELSE Norm(IF neg THEN -mant ELSE mant, Len(fp))

\* parseInt(s, 10) for a string s
ParseInt(s) ==
    LET t == TrimStart(s)
        neg == t # <<>> /\ t[1] = "-"
        u == IF t # <<>> /\ t[1] \in {"-", "+"} THEN Tail(t) ELSE t
        ip == DigitPrefix(u)
    IN  IF ip = <<>> THEN NaN
        ELSE Num(IF neg THEN -DigitsToInt(ip) ELSE DigitsToInt(ip))

\* s.split(sep) for a one-character separator
RECURSIVE Split(_, _)
Split(s, sep) ==
    IF \E i \in 1..Len(s) : s[i] = sep
    THEN LET i == CHOOSE j \in 1..Len(s) : s[j] = sep /\ \A k \in 1..(j - 1) : s[k] # sep
         IN  <<Take(s, i - 1)>> \o Split(Drop(s, i), sep)
    ELSE <<s>>

\* parts.join(sep)
RECURSIVE Join(_, _)
Join(parts, sep) ==
    IF parts = <<>> THEN <<>>
    ELSE IF Len(parts) = 1 THEN parts[1]
    ELSE parts[1] \o <<sep>> \o Join(Tail(parts), sep)

\* s.lastIndexOf(c), 0-based, -1 when absent
LastIndexOf(s, c) ==
    IF \E i \in 1..Len(s) : s[i] = c
    THEN (CHOOSE i \in 1..Len(s) : s[i] = c /\ \A k \in (i + 1)..Len(s) : s[k] # c) - 1
    ELSE -1

Lower(c) ==
    CASE c = "V" -> "v" [] c = "R" -> "r" [] c = "P" -> "p" [] c = "T" -> "t"
      [] c = "X" -> "x" [] c = "L" -> "l" [] c = "O" -> "o" [] c = "G" -> "g"
      [] c = "H" -> "h" [] c = "M" -> "m" [] OTHER -> c

LowerSeq(s) == [i \in 1..Len(s) |-> Lower(s[i])]

EndsWith(s, suf) ==
    Len(s) >= Len(suf) /\ SubSeq(s, Len(s) - Len(suf) + 1, Len(s)) = suf

----------------------------------------------------------------------------
(* JSON field values: string | number | null | undefined (field absent)     *)

Str(s) == [t |-> "str", s |-> s, n |-> Null]
JNum(x) == [t |-> "num", s |-> <<>>, n |-> x]
JNull == [t |-> "null", s |-> <<>>, n |-> Null]
Undefined == [t |-> "undef", s |-> <<>>, n |-> Null]

\* parseFloat(x) for any field value: the argument is first converted to a string
\* ("undefined", "null" have no numeric prefix; a number prints as itself)
ParseFloatValue(x) ==
    CASE x.t = "str" -> ParseFloat(x.s)
      [] x.t = "num" -> x.n
      [] OTHER -> NaN

----------------------------------------------------------------------------
(* commonParserUtils.ts: parseGenericInstanceName                           *)

Extensions ==
    { <<".", "v", "r", "p">>, <<".", "t", "x", "t">>, <<".", "l", "o", "g">>,
      <<".", "h", "t", "m", "l">> }

\* a replace that knows the ending .vrp only
StripVrpOnly(s) ==
    IF EndsWith(LowerSeq(s), <<".", "v", "r", "p">>) THEN Take(s, Len(s) - 4) ELSE s

\* instanceName.replace(/\.(vrp|txt|log|html)$/i, '')
StripExtension(s) ==
    IF \E x \in Extensions : EndsWith(LowerSeq(s), x)
    THEN LET x == CHOOSE y \in Extensions : EndsWith(LowerSeq(s), y)
         IN  Take(s, Len(s) - Len(x))
    ELSE s

DefaultVariant == <<"d", "e", "f", "a", "u", "l", "t">>

\* lines 13-46, from the split
ParsedName(nameWithoutExtension, parts, numCustomers, numVehicles, lastUnderscoreIndex) ==
    IF Len(parts) >= 2 /\ numCustomers # NaN /\ numVehicles # NaN
    THEN [ numCustomers |-> numCustomers,
           numVehicles |-> numVehicles,
           problemVariant |-> IF Len(parts) >= 3
                              THEN Join(Drop(parts, 2), "_")
                              ELSE DefaultVariant,
           baseInstanceName |-> IntToChars(numCustomers.m) \o <<"_">>
                                \o IntToChars(numVehicles.m) ]
    ELSE IF lastUnderscoreIndex # -1
            /\ lastUnderscoreIndex < Len(nameWithoutExtension) - 1
    THEN [ numCustomers |-> Null,
           numVehicles |-> Null,
           problemVariant |-> Drop(nameWithoutExtension, lastUnderscoreIndex + 1),
           baseInstanceName |-> Take(nameWithoutExtension, lastUnderscoreIndex) ]
    ELSE [ numCustomers |-> Null,
           numVehicles |-> Null,
           problemVariant |-> DefaultVariant,
           baseInstanceName |-> nameWithoutExtension ]

\* parseInt(parts[i], 10); parts[i] is undefined past the end, and parseInt gives NaN
ParseIntPart(parts, i) == IF i <= Len(parts) THEN ParseInt(parts[i]) ELSE NaN

SplitName(nameWithoutExtension, parts) ==
    ParsedName(nameWithoutExtension, parts, ParseIntPart(parts, 1),
               ParseIntPart(parts, 2), LastIndexOf(nameWithoutExtension, "_"))

StrippedName(nameWithoutExtension) ==
    SplitName(nameWithoutExtension, Split(nameWithoutExtension, "_"))

parseGenericInstanceName(instanceName) == StrippedName(StripExtension(instanceName))

----------------------------------------------------------------------------
(* logParser.ts: parseLogEntries                                           *)

\* A line of the file is: blank; text JSON.parse rejects ("invalid"); the JSON value
\* null ("null"); a JSON number, string, boolean or array ("scalar": reading
\* .Instance gives undefined); or a JSON object with the four fields, each a field
\* value (Undefined when the object does not have it).
BlankLine == [kind |-> "blank", Instance |-> Undefined, Time |-> Undefined,
              Result |-> Undefined, Solution |-> Undefined]
InvalidLine == [BlankLine EXCEPT !.kind = "invalid"]
NullLine == [BlankLine EXCEPT !.kind = "null"]
ScalarLine == [BlankLine EXCEPT !.kind = "scalar"]
ObjectLine(i, t, r, s) ==
    [kind |-> "object", Instance |-> i, Time |-> t, Result |-> r, Solution |-> s]

Sentinel == Str(<<"-", "-">>)

\* const isUnsolved = scoreStr === "--" || timeStr === "--"
LogIsUnsolvedAnd(scoreStr, timeStr) == scoreStr = Sentinel /\ timeStr = Sentinel
LogIsUnsolved(scoreStr, timeStr) == scoreStr = Sentinel \/ timeStr = Sentinel

\* the catch clause of the loop body: which errors it catches
CatchesSyntaxErrorOnly(err) == err = "SyntaxError"
Catches(err) == err \in {"SyntaxError", "TypeError"}

\* uuidv4(): a fresh identifier, here the parser call that made the record and
\* the record's number in that call's output
uuidv4(call, n) == <<call, n>>

\* lines 27-41: the record built for a line
LogItem(line, logFilename, id, parsedNameDetails, isUnsolved) ==
    [ id |-> id,
      sourceName |-> logFilename,
      entryOwner |-> logFilename,
      instance |-> line.Instance.s,
      numCustomers |-> parsedNameDetails.numCustomers,
      numVehicles |-> parsedNameDetails.numVehicles,
      problemVariant |-> parsedNameDetails.problemVariant,
      baseInstanceName |-> parsedNameDetails.baseInstanceName,
      score |-> IF isUnsolved THEN Null ELSE ParseFloatValue(line.Result),
      time |-> IF isUnsolved THEN Null ELSE ParseFloatValue(line.Time),
      solutionString |-> line.Solution,
      isUnsolved |-> isUnsolved,
      sourceType |-> "log" ]

\* The body of the try block for one line.  error is "none" when the block ran to
\* its end or hit `continue`; items holds the record pushed, if any.  JSON.parse
\* throws a SyntaxError; reading .Instance of null, and calling .replace on an
\* Instance that is not a string, throw a TypeError.
LogLineBody(line, logFilename, id) ==
    IF line.kind = "blank" THEN [error |-> "none", items |-> <<>>]
    ELSE IF line.kind = "invalid" THEN [error |-> "SyntaxError", items |-> <<>>]
    ELSE IF line.kind = "null" THEN [error |-> "TypeError", items |-> <<>>]
    ELSE IF line.Instance.t # "str" THEN [error |-> "TypeError", items |-> <<>>]
    ELSE [ error |-> "none",
           items |-> << LogItem(line, logFilename, id,
                                parseGenericInstanceName(line.Instance.s),
                                LogIsUnsolved(line.Result, line.Time)) >> ]

\* for (const line of lines) { try { ... } catch { } }: an error the catch clause
\* does not catch leaves the function (raised), and nothing is returned
RECURSIVE LogLoop(_, _, _, _)
LogStep(r, lines, logFilename, call, unifiedItems) ==
    IF r.error # "none" /\ ~Catches(r.error)
    THEN [items |-> <<>>, raised |-> TRUE]
    ELSE LogLoop(Tail(lines), logFilename, call, unifiedItems \o r.items)

LogLoop(lines, logFilename, call, unifiedItems) ==
    IF lines = <<>> THEN [items |-> unifiedItems, raised |-> FALSE]
    ELSE LogStep(LogLineBody(Head(lines), logFilename,
                             uuidv4(call, Len(unifiedItems) + 1)),
                 lines, logFilename, call, unifiedItems)

\* lines is logContent.trim().split('\n'); call identifies this call for uuidv4
parseLogEntries(lines, logFilename, call) == LogLoop(lines, logFilename, call, <<>>)

----------------------------------------------------------------------------
(* leaderboardParser.ts: parseLeaderboardHtmlToUnifiedData                  *)

\* String(x) for a number m * 10^-e
RECURSIVE PadLeft(_, _)
PadLeft(s, n) == IF Len(s) >= n THEN s ELSE PadLeft(<<"0">> \o s, n)

NumToChars(x) ==
    IF x.t # "num" THEN <<"N", "a", "N">>
    ELSE IF x.e = 0 THEN IntToChars(x.m)
    ELSE LET abs == IF x.m < 0 THEN -x.m ELSE x.m
             ds == PadLeft(NatToChars(abs), x.e + 1)
         IN  (IF x.m < 0 THEN <<"-">> ELSE <<>>)
             \o Take(ds, Len(ds) - x.e) \o <<".">> \o Drop(ds, Len(ds) - x.e)

\* String(cellContent) for a cell that is neither undefined nor null
CellToString(x) == IF x.t = "str" THEN x.s ELSE NumToChars(x.n)

StartsWith(s, pre) == Len(s) >= Len(pre) /\ Take(s, Len(pre)) = pre

\* the longest prefix of s whose characters are all in class
RECURSIVE ClassPrefix(_, _)
ClassPrefix(s, class) ==
    IF s # <<>> /\ s[1] \in class THEN <<s[1]>> \o ClassPrefix(Tail(s), class) ELSE <<>>

DigitsDot == Digits \cup {"."}
DigitsDotMinus == Digits \cup {".", "-"}

\* \s*\[([\d.]+)\] matched at the start of s: [ok, group, rest]
BracketAt(s) ==
    LET a == TrimStart(s)
        g == IF a # <<>> /\ a[1] = "[" THEN ClassPrefix(Tail(a), DigitsDot) ELSE <<>>
        r == Drop(a, Len(g) + 1)
    IN  IF a # <<>> /\ a[1] = "[" /\ g # <<>> /\ r # <<>> /\ r[1] = "]"
        THEN [ok |-> TRUE, group |-> g, rest |-> Tail(r)]
        ELSE [ok |-> FALSE, group |-> <<>>, rest |-> <<>>]

\* cellContentStr.match(/--\s*\[([\d.]+)\]/): the leftmost match, anywhere in s
UnsolvedTimeMatch(s) ==
    LET hits == { i \in 1..Len(s) : /\ i + 1 <= Len(s)
                                    /\ s[i] = "-" /\ s[i + 1] = "-"
                                    /\ BracketAt(Drop(s, i + 1)).ok }
    IN  IF hits = {} THEN [ok |-> FALSE, group |-> <<>>]
        ELSE LET i == CHOOSE j \in hits : \A k \in hits : j <= k
             IN  [ok |-> TRUE, group |-> BracketAt(Drop(s, i + 1)).group]

\* a match of /^([\d.-]+)$/ alone, which has no bracketed time
ScoreOnlyMatch(s) ==
    IF s # <<>> /\ ClassPrefix(s, DigitsDotMinus) = s
    THEN [ok |-> TRUE, g1 |-> s, g2 |-> <<>>]
    ELSE [ok |-> FALSE, g1 |-> <<>>, g2 |-> <<>>]

\* cellContentStr.match(/^([\d.-]+)(?:\s*\[([\d.]+)\])?$/)
ScoreTimeMatch(s) ==
    LET g1 == ClassPrefix(s, DigitsDotMinus)
        r == Drop(s, Len(g1))
        b == BracketAt(r)
    IN  IF g1 = <<>> THEN [ok |-> FALSE, g1 |-> <<>>, g2 |-> <<>>]
        ELSE IF r = <<>> THEN [ok |-> TRUE, g1 |-> g1, g2 |-> <<>>]
        ELSE IF b.ok /\ b.rest = <<>> THEN [ok |-> TRUE, g1 |-> g1, g2 |-> b.group]
        ELSE [ok |-> FALSE, g1 |-> <<>>, g2 |-> <<>>]

\* lines 86-109: the trimmed cell text to score, time and isUnsolved
ParseCellText(cellContentStr, timeMatchInUnsolved, scoreTimeMatch) ==
    IF \/ cellContentStr = <<"-", "-">>
       \/ cellContentStr = <<>>
       \/ StartsWith(cellContentStr, <<"-", "-", " ", "[">>)
    THEN [ score |-> Null,
           time |-> IF timeMatchInUnsolved.ok
                    THEN ParseFloat(timeMatchInUnsolved.group) ELSE Null,
           isUnsolved |-> TRUE ]
    ELSE IF scoreTimeMatch.ok
    THEN [ score |-> ParseFloat(scoreTimeMatch.g1),
           time |-> IF scoreTimeMatch.g2 # <<>>
                    THEN ParseFloat(scoreTimeMatch.g2) ELSE Null,
           isUnsolved |-> FALSE ]
    ELSE [score |-> Null, time |-> Null, isUnsolved |-> TRUE]

\* lines 80-109, from const cellContentStr = String(cellContent).trim()
ParseCell(cellContent) ==
    ParseCellText(Trim(CellToString(cellContent)),
                  UnsolvedTimeMatch(Trim(CellToString(cellContent))),
                  ScoreTimeMatch(Trim(CellToString(cellContent))))

\* an exclusion list that lacks "Rank" and "name"
shortNonProblemColumns ==
    { <<"T", "o", "t", "a", "l", " ", "t", "i", "m", "e">>,
      <<"S", "u", "b", "m", "i", "s", "s", "i", "o", "n", " ", "N", "a", "m", "e">>,
      <<"A", "v", "g", " ", "T", "i", "m", "e">>,
      <<"S", "u", "b", "m", "i", "s", "s", "i", "o", "n", "s">>,
      <<"P", "r", "o", "b", "l", "e", "m", "s", " ", "S", "o", "l", "v", "e", "d">> }

knownNonProblemColumns ==
    { <<"T", "o", "t", "a", "l", " ", "t", "i", "m", "e">>,
      <<"R", "a", "n", "k">>,
      <<"S", "u", "b", "m", "i", "s", "s", "i", "o", "n", " ", "N", "a", "m", "e">>,
      <<"A", "v", "g", " ", "T", "i", "m", "e">>,
      <<"S", "u", "b", "m", "i", "s", "s", "i", "o", "n", "s">>,
      <<"P", "r", "o", "b", "l", "e", "m", "s", " ", "S", "o", "l", "v", "e", "d">>,
      <<"n", "a", "m", "e">>,
      <<"a", "s", "s", "i", "g", "n", "m", "e", "n", "t", "_", "s", "u", "b", "m", "i",
        "s", "s", "i", "o", "n", "_", "i", "d">> }

UnknownParticipant ==
    <<"U", "n", "k", "n", "o", "w", "n", " ", "P", "a", "r", "t", "i", "c", "i", "p",
      "a", "n", "t">>

\* The document: hasDiv (the carrier element exists), props (its data-react-props
\* attribute: "absent", "invalid" JSON, the JSON value "null", a JSON "scalar", or
\* an "object"), and for an object the values of columns and entries: arr says
\* whether the value is an array, elems are its elements.  A column is null or an
\* object with a name; an entry is null or an object with the field values of its
\* keys (cells), Undefined for a key it does not have.
Column(name) == [isNull |-> FALSE, name |-> name]
NullColumn == [isNull |-> TRUE, name |-> Undefined]
Entry(cells) == [isNull |-> FALSE, cells |-> cells]
NullEntry == [isNull |-> TRUE, cells |-> <<>>]
NameKey == <<"n", "a", "m", "e">>

\* entry[key] read as absent whenever it is falsy: an empty cell counts as missing
CellIfTruthy(entry, key) ==
    IF key \in DOMAIN entry.cells /\ entry.cells[key] # Str(<<>>)
    THEN entry.cells[key] ELSE Undefined

\* entry[key]
Cell(entry, key) == IF key \in DOMAIN entry.cells THEN entry.cells[key] ELSE Undefined

\* columns.map(col => col.name).filter(name => name && !known.includes(name));
\* reading .name of a null column is a TypeError
RECURSIVE ProblemColumns(_)
ProblemColumns(columns) ==
    IF columns = <<>> THEN [raised |-> FALSE, names |-> <<>>]
    ELSE IF Head(columns).isNull THEN [raised |-> TRUE, names |-> <<>>]
    ELSE LET rest == ProblemColumns(Tail(columns))
             name == Head(columns).name
             keep == name.t = "str" /\ name.s # <<>> /\ name.s \notin knownNonProblemColumns
         IN  IF rest.raised THEN rest
             ELSE [raised |-> FALSE,
                   names |-> (IF keep THEN <<name.s>> ELSE <<>>) \o rest.names]

\* lines 111-125: the record built for a cell
LeaderboardItem(id, sourceFileName, participantName, problemInstance, parsedNameDetails, c) ==
    [ id |-> id,
      sourceName |-> sourceFileName,
      entryOwner |-> participantName,
      instance |-> problemInstance,
      numCustomers |-> parsedNameDetails.numCustomers,
      numVehicles |-> parsedNameDetails.numVehicles,
      problemVariant |-> parsedNameDetails.problemVariant,
      baseInstanceName |-> parsedNameDetails.baseInstanceName,
      score |-> c.score,
      time |-> c.time,
      solutionString |-> JNull,
      isUnsolved |-> c.isUnsolved,
      sourceType |-> "leaderboard" ]

\* problemInstanceColumns.forEach(...) for one entry
RECURSIVE EntryItems(_, _, _, _, _, _)
EntryItems(entry, participantName, columns, sourceFileName, call, n) ==
    IF columns = <<>> THEN <<>>
    ELSE IF Cell(entry, Head(columns)).t \in {"undef", "null"}
    THEN EntryItems(entry, participantName, Tail(columns), sourceFileName, call, n)
    ELSE << LeaderboardItem(uuidv4(call, n), sourceFileName, participantName,
                            Head(columns),
                            parseGenericInstanceName(Head(columns)),
                            ParseCell(Cell(entry, Head(columns)))) >>
         \o EntryItems(entry, participantName, Tail(columns), sourceFileName, call,
                       n + 1)

\* entries.forEach(...); reading .name of a null entry is a TypeError
RECURSIVE EntriesLoop(_, _, _, _, _)
EntriesLoop(entries, columns, sourceFileName, call, unifiedItems) ==
    IF entries = <<>> THEN [items |-> unifiedItems, raised |-> FALSE]
    ELSE IF Head(entries).isNull THEN [items |-> <<>>, raised |-> TRUE]
    ELSE LET entry == Head(entries)
             name == Cell(entry, NameKey)
             participantName == IF name.t = "str" /\ name.s # <<>>
                                THEN name.s ELSE UnknownParticipant
         IN  EntriesLoop(Tail(entries), columns, sourceFileName, call,
                         unifiedItems \o EntryItems(entry, participantName, columns,
                                                    sourceFileName, call,
                                                    Len(unifiedItems) + 1))

parseLeaderboardHtmlToUnifiedData(html, sourceFileName, call) ==
    IF ~html.hasDiv THEN [items |-> <<>>, raised |-> FALSE]
    ELSE IF html.props = "absent" THEN [items |-> <<>>, raised |-> FALSE]
    ELSE IF html.props = "invalid" THEN [items |-> <<>>, raised |-> FALSE]
    ELSE IF html.props = "null" THEN [items |-> <<>>, raised |-> TRUE]
    ELSE IF html.props = "scalar" THEN [items |-> <<>>, raised |-> FALSE]
    ELSE IF ~html.columns.arr \/ ~html.entries.arr THEN [items |-> <<>>, raised |-> FALSE]
    ELSE LET cols == ProblemColumns(html.columns.elems)
         IN  IF cols.raised THEN [items |-> <<>>, raised |-> TRUE]
             ELSE EntriesLoop(html.entries.elems, cols.names, sourceFileName, call, <<>>)

----------------------------------------------------------------------------
(* SpecParse: each parser applied to every input of the sets below          *)

MaxLines == 2
MaxRows == 1

\* the sets of n-tuples over S, for n = 0..k
RECURSIVE SeqsUpTo(_, _)
SeqsUpTo(S, k) ==
    IF k = 0 THEN {<<>>}
    ELSE LET shorter == SeqsUpTo(S, k - 1)
         IN  shorter \cup {Append(q, x) : q \in shorter, x \in S}

LogName == <<"a", ".", "l", "o", "g">>
HtmlName == <<"c", ".", "h", "t", "m", "l">>

ResultValues ==
    { Sentinel, Str(<<"1">>), Str(<<"1", ".", "5">>), Str(<<"-", "2">>),
      Str(<<"a">>), Str(<<"1", "a">>), Str(<<>>), Str(<<"-", "-", " ">>),
      JNum(Num(3)), Undefined }
TimeValues == { Sentinel, Str(<<"0", ".", "2">>), Undefined }
InstanceName1 == <<"5", "_", "2", "_", "1", ".", "v", "r", "p">>
InstanceName2 == <<"x", ".", "v", "r", "p">>
RankName == <<"R", "a", "n", "k">>

LogLines ==
    { ObjectLine(Str(InstanceName1), t, r, Str(<<"s">>)) : t \in TimeValues, r \in ResultValues }
    \cup { ObjectLine(Str(InstanceName2), Str(<<"0", ".", "2">>), Str(<<"1">>), Str(<<>>)),
           ObjectLine(Undefined, Str(<<"0", ".", "2">>), Str(<<"1">>), Str(<<"s">>)),
           ObjectLine(JNum(Num(5)), Sentinel, Sentinel, Str(<<"s">>)),
           BlankLine, InvalidLine, NullLine, ScalarLine }

CellValues ==
    { Str(<<"-", "-">>), Str(<<>>), Str(<<"-", "-", " ", "[", "5", ".", "0", "]">>),
      Str(<<"-", "-", "[", "5", "]">>), Str(<<"-", "-", " ", " ", "[", "5", "]">>),
      Str(<<"1", ".", "5", " ", "[", "0", ".", "2", "]">>), Str(<<"1", ".", "5">>),
      Str(<<" ", "2", " ">>), Str(<<"-">>), Str(<<"1", ".", "2", ".", "3">>),
      Str(<<"-", "-", "5">>), Str(<<"a">>), Str(<<"-", "-", " ", "[", "a", "]">>),
      JNum(Num(7)), JNull, Undefined }

ColumnLists ==
    { <<>>,
      <<Column(Str(InstanceName1))>>,
      <<Column(Str(RankName)), Column(Str(InstanceName1))>>,
      <<Column(Str(InstanceName1)), Column(Str(InstanceName2))>>,
      <<Column(Undefined), Column(Str(NameKey)), Column(Str(InstanceName1))>>,
      <<Column(Str(InstanceName1)), NullColumn>> }

EntryCells(name, c1, c2) ==
    (NameKey :> name) @@ (RankName :> JNum(Num(1)))
        @@ (InstanceName1 :> c1) @@ (InstanceName2 :> c2)

Entries ==
    { Entry(EntryCells(n, c1, c2)) :
        n \in {Str(<<"P">>), Undefined}, c1 \in CellValues,
        c2 \in {Undefined, Str(<<"1">>)} }
    \cup {NullEntry}

NoArray == [arr |-> FALSE, elems |-> <<>>]
Array(elems) == [arr |-> TRUE, elems |-> elems]
Doc(hasDiv, props, columns, entries) ==
    [hasDiv |-> hasDiv, props |-> props, columns |-> columns, entries |-> entries]
EmptyDoc == Doc(FALSE, "absent", NoArray, NoArray)

Docs ==
    { EmptyDoc,
      Doc(TRUE, "absent", NoArray, NoArray),
      Doc(TRUE, "invalid", NoArray, NoArray),
      Doc(TRUE, "null", NoArray, NoArray),
      Doc(TRUE, "scalar", NoArray, NoArray),
      Doc(TRUE, "object", NoArray, Array(<<>>)),
      Doc(TRUE, "object", Array(<<>>), NoArray) }
    \cup { Doc(TRUE, "object", Array(c), Array(e)) :
             c \in ColumnLists, e \in SeqsUpTo(Entries, MaxRows) }

NotCalled == [called |-> FALSE, items |-> <<>>, raised |-> FALSE]
NoMetrics == [called |-> FALSE, ownerPerformance |-> <<>>]

IdleLog == logContent = <<>> /\ logResult = NotCalled
IdleLb == lbDoc = EmptyDoc /\ lbResult = NotCalled
IdleStore == masterData = <<>> /\ sources = <<>> /\ drops = <<>>
IdleMetrics == data = <<>> /\ metrics = NoMetrics
NoDetails ==
    [ called |-> FALSE,
      details |-> [ numCustomers |-> Null, numVehicles |-> Null,
                    problemVariant |-> <<>>, baseInstanceName |-> <<>> ] ]
IdleName == nameArg = <<>> /\ nameResult = NoDetails
NoOutliers == [called |-> FALSE, list |-> <<>>]
IdleOutliers == outliers = NoOutliers
NoComparison == [called |-> FALSE, groupedData |-> <<>>, owners |-> {}, cells |-> <<>>]
IdleComparison == comparison = NoComparison

InitParse ==
    /\ \/ logContent \in SeqsUpTo(LogLines, MaxLines) /\ lbDoc = EmptyDoc
       \/ logContent = <<>> /\ lbDoc \in Docs
    /\ logResult = NotCalled
    /\ lbResult = NotCalled
    /\ IdleStore
    /\ IdleMetrics
    /\ IdleName
    /\ IdleOutliers
    /\ IdleComparison

CallParseLogEntries ==
    /\ ~logResult.called
    /\ logResult' = [called |-> TRUE] @@ parseLogEntries(logContent, LogName, <<1, LogName>>)
    /\ UNCHANGED <<logContent, lbDoc, lbResult, masterData, sources, drops,
                   data, metrics,
                   nameArg, nameResult, outliers, comparison>>

CallParseLeaderboard ==
    /\ ~lbResult.called
    /\ lbResult' = [called |-> TRUE]
                       @@ parseLeaderboardHtmlToUnifiedData(lbDoc, HtmlName, <<1, HtmlName>>)
    /\ UNCHANGED <<logContent, logResult, lbDoc, masterData, sources, drops,
                   data, metrics,
                   nameArg, nameResult, outliers, comparison>>

NextParse == CallParseLogEntries \/ CallParseLeaderboard

SpecParse == InitParse /\ [][NextParse]_vars

----------------------------------------------------------------------------
(* page.tsx: the record store                                              *)

\* setMasterData(prevData => [...prevData, ...newData])
handleDataUpdate(prevData, newData) == prevData \o newData

\* sourceNameToClear is a string, or Undefined when the argument is omitted; the
\* branch is taken on its truthiness
handleDataClearedAll(prevData, sourceNameToClear) == <<>>
handleDataCleared(prevData, sourceNameToClear) ==
    IF sourceNameToClear.t = "str" /\ sourceNameToClear.s # <<>>
    THEN SelectSeq(prevData, LAMBDA item : item.sourceName # sourceNameToClear.s)
    ELSE <<>>

----------------------------------------------------------------------------
(* CombinedFileUploader.tsx                                                *)

\* Maps (new Map()): functions with a finite domain
EmptyMap == <<>>
MapSet(m, k, v) == [x \in DOMAIN m \cup {k} |-> IF x = k THEN v ELSE m[x]]
MapDelete(m, k) == [x \in DOMAIN m \ {k} |-> m[x]]
MapHas(m, k) == k \in DOMAIN m

\* A File: its name and its text, as the lines of a log or as a document
File(name, lines, doc) == [name |-> name, lines |-> lines, doc |-> doc]

UploadedSource(file, type, status, items, errorMessage) ==
    [file |-> file.name, type |-> type, status |-> status, data |-> items,
     errorMessage |-> errorMessage]

DotLog == <<".", "l", "o", "g">>
DotHtml == <<".", "h", "t", "m", "l">>
DotHtm == <<".", "h", "t", "m">>

\* lines 38-43 and 49-54, 59-65: the source made of what the parser returned; an
\* exception of the parser is caught and leaves data empty
ParsedSource(file, type, r, emptyMessage) ==
    IF r.raised THEN UploadedSource(file, type, "error", <<>>, "Failed to parse")
    ELSE IF Len(r.items) = 0 THEN UploadedSource(file, type, "error", r.items, emptyMessage)
    ELSE UploadedSource(file, type, "success", r.items, "")

\* processFile(file), once file.text() has resolved; call identifies the parser
\* call for uuidv4
processFile(file, call) ==
    IF EndsWith(file.name, DotLog)
    THEN ParsedSource(file, "log", parseLogEntries(file.lines, file.name, call),
                      "No valid entries found")
    ELSE IF EndsWith(file.name, DotHtml) \/ EndsWith(file.name, DotHtm)
    THEN ParsedSource(file, "html",
                      parseLeaderboardHtmlToUnifiedData(file.doc, file.name, call),
                      "No valid leaderboard data found")
    ELSE UploadedSource(file, "unknown", "error", <<>>, "Unsupported file type")

\* lines 74-89 of onDrop, for each accepted file in turn up to its await: a file
\* whose name newSources has is passed over, any other is entered as 'parsing' and
\* its processFile task is started (started: the names of the files with a task)
AlreadyUploaded(newSources, name) == MapHas(newSources, name)

RECURSIVE StartTasks(_, _, _)
StartTasks(acceptedFiles, newSources, started) ==
    IF acceptedFiles = <<>> THEN [newSources |-> newSources, started |-> started]
    ELSE LET file == Head(acceptedFiles)
         IN  IF AlreadyUploaded(newSources, file.name)
             THEN StartTasks(Tail(acceptedFiles), newSources, started)
             ELSE StartTasks(Tail(acceptedFiles),
                             MapSet(newSources, file.name,
                                    UploadedSource(file, "unknown", "parsing", <<>>, "")),
                             started \cup {file.name})

\* newDataItems = [...newDataItems, ...processedSource.data]
KeepsLastOnly(newDataItems, items) == items
Accumulate(newDataItems, items) == newDataItems \o items

\* the files the user can drop, one per name
FileA ==
    File(<<"a", ".", "l", "o", "g">>,
         << ObjectLine(Str(InstanceName1), Str(<<"0", ".", "2">>), Str(<<"1", ".", "5">>),
                       Str(<<"s">>)),
            ObjectLine(Str(InstanceName2), Sentinel, Sentinel, Str(<<>>)) >>,
         EmptyDoc)
FileB ==
    File(<<"b", ".", "l", "o", "g">>,
         << InvalidLine,
            ObjectLine(Str(InstanceName1), Str(<<"0", ".", "2">>), Str(<<"1">>),
                       Str(<<"s">>)) >>,
         EmptyDoc)
FileE == File(<<"e", ".", "l", "o", "g">>, <<InvalidLine, BlankLine>>, EmptyDoc)
FileC ==
    File(<<"c", ".", "h", "t", "m", "l">>, <<>>,
         Doc(TRUE, "object",
             Array(<<Column(Str(RankName)), Column(Str(InstanceName1))>>),
             Array(<<Entry(EntryCells(Str(<<"P">>), Str(<<"1", ".", "5">>), Undefined))>>)))

Files == {FileA, FileB, FileE, FileC}

\* the lists of files one drop can hand to onDrop
DropChoices ==
    { <<>>, <<FileA>>, <<FileB>>, <<FileA, FileB>>, <<FileA, FileA>>, <<FileE, FileC>> }

MaxDrops == 2

Init ==
    /\ masterData = <<>>
    /\ sources = EmptyMap
    /\ drops = <<>>
    /\ IdleLog
    /\ IdleLb
    /\ IdleMetrics
    /\ IdleName
    /\ IdleOutliers
    /\ IdleComparison

\* what the continuation after `await Promise.all(...)` does (lines 103-107)
FinishDrop(drop) ==
    /\ sources' = drop.newSources
    /\ masterData' = IF Len(drop.newDataItems) > 0
                     THEN handleDataUpdate(masterData, drop.newDataItems)
                     ELSE masterData

\* the locals of one onDrop call: newSources, newDataItems, the two counters, and
\* its tasks (by file name), those still awaiting processFile, and whether the
\* continuation after Promise.all has run
NewDrop(st) ==
    [ newSources |-> st.newSources,
      newDataItems |-> <<>>,
      filesProcessed |-> 0,
      filesErrored |-> 0,
      tasks |-> st.started,
      pending |-> st.started,
      done |-> st.started = {} ]

\* once the continuation has run, the call's newSources and newDataItems are
\* released; what the drop did (its tasks, its counters) stays on record
Finished(drop) == [drop EXCEPT !.newSources = EmptyMap, !.newDataItems = <<>>]

OnDropStarted(drop) ==
    /\ Len(drops) < MaxDrops
    /\ drops' = Append(drops, IF drop.done THEN Finished(drop) ELSE drop)
    /\ IF drop.done
       THEN FinishDrop(drop)
       ELSE sources' = drop.newSources /\ masterData' = masterData
    /\ UNCHANGED <<logContent, logResult, lbDoc, lbResult, data, metrics,
                   nameArg, nameResult, outliers, comparison>>

\* onDrop(acceptedFiles) up to its first await.  With no task started the promises
\* are all resolved and the continuation runs before any other event.
OnDrop(acceptedFiles) ==
    OnDropStarted(NewDrop(StartTasks(acceptedFiles, sources, {})))

\* lines 90-98: the drop's locals after the task of file has resumed
DropAfterTask(drop, file, processedSource, ok) ==
    [ drop EXCEPT
        !.newSources = MapSet(@, file.name, processedSource),
        !.newDataItems = IF ok THEN Accumulate(@, processedSource.data) ELSE @,
        !.filesProcessed = IF ok THEN @ + 1 ELSE @,
        !.filesErrored = IF ok THEN @ ELSE @ + 1,
        !.pending = @ \ {file.name},
        !.done = (drop.pending = {file.name}) ]

TaskResumed(d, drop) ==
    /\ drops' = [drops EXCEPT ![d] = IF drop.done THEN Finished(drop) ELSE drop]
    /\ IF drop.done
       THEN FinishDrop(drop)
       ELSE UNCHANGED <<sources, masterData>>
    /\ UNCHANGED <<logContent, logResult, lbDoc, lbResult, data, metrics,
                   nameArg, nameResult, outliers, comparison>>

TaskProcessed(d, file, processedSource) ==
    TaskResumed(d, DropAfterTask(drops[d], file, processedSource,
                                 processedSource.status = "success"))

\* the task of one file of drop d resumes after `await processFile(file)` (lines
\* 89-98); when it was the last task of the drop, Promise.all resolves and the
\* continuation of onDrop runs
TaskDone(d, file) ==
    /\ d \in DOMAIN drops
    /\ file.name \in drops[d].pending
    /\ TaskProcessed(d, file, processFile(file, <<d, file.name>>))

\* removeFile(fileName): the button of a listed source
RemoveFile(fileName) ==
    /\ MapHas(sources, fileName)
    /\ sources' = MapDelete(sources, fileName)
    /\ masterData' = handleDataCleared(masterData, Str(fileName))
    /\ UNCHANGED <<drops, logContent, logResult, lbDoc, lbResult, data, metrics,
                   nameArg, nameResult, outliers, comparison>>

\* clearAllFiles(): the button is shown while sources.size > 0
ClearAllFiles ==
    /\ DOMAIN sources # {}
    /\ sources' = EmptyMap
    /\ masterData' = handleDataCleared(masterData, Undefined)
    /\ UNCHANGED <<drops, logContent, logResult, lbDoc, lbResult, data, metrics,
                   nameArg, nameResult, outliers, comparison>>

Next ==
    \/ \E acceptedFiles \in DropChoices : OnDrop(acceptedFiles)
    \/ \E d \in DOMAIN drops : \E file \in Files : TaskDone(d, file)
    \/ \E fileName \in DOMAIN sources : RemoveFile(fileName)
    \/ ClearAllFiles

Spec == Init /\ [][Next]_vars

----------------------------------------------------------------------------
(* Claims about the parsers, checked under SpecParse                        *)

\* A line decodes to a structured record: a JSON object with an Instance string
Decodes(line) == line.kind = "object" /\ line.Instance.t = "str"
DecodedLines == SelectSeq(logContent, Decodes)

\* exactly one of {isUnsolved, score = null} or {not isUnsolved, score a finite number}
RecordConsistent(r) ==
    \/ r.isUnsolved /\ r.score = Null
    \/ ~r.isUnsolved /\ IsNumber(r.score)

\* C1: every record a parser emits is either unsolved with a null score or solved
\* with a score that is a finite number.
C1_RecordsConsistent ==
    /\ \A k \in 1..Len(logResult.items) : RecordConsistent(logResult.items[k])
    /\ \A k \in 1..Len(lbResult.items) : RecordConsistent(lbResult.items[k])

\* The value JavaScript's parseFloat gives each field value of the input sets,
\* written out by hand: a decimal numeral is its value, a numeral followed by other
\* text is the numeral's value, and text with no leading numeral is NaN.
FloatOf(x) ==
    CASE x = Str(<<"1">>) -> Num(1)
      [] x = Str(<<"1", ".", "5">>) -> [t |-> "num", m |-> 15, e |-> 1]
      [] x = Str(<<"0", ".", "2">>) -> [t |-> "num", m |-> 2, e |-> 1]
      [] x = Str(<<"-", "2">>) -> Num(-2)
      [] x = Str(<<"1", "a">>) -> Num(1)
      [] x = JNum(Num(3)) -> Num(3)
      [] OTHER -> NaN

\* C9: a decoded line is unsolved exactly when Result or Time is the string "--";
\* then score and time are null, and otherwise they are the float values of Result
\* and Time.
C9_UnsolvedIffSentinel ==
    logResult.called =>
        /\ Len(logResult.items) = Len(DecodedLines)
        /\ \A k \in 1..Len(logResult.items) :
              LET item == logResult.items[k]
                  line == DecodedLines[k]
              IN  /\ item.isUnsolved <=>
                        (line.Result = Str(<<"-", "-">>) \/ line.Time = Str(<<"-", "-">>))
                  /\ item.isUnsolved => item.score = Null /\ item.time = Null
                  /\ ~item.isUnsolved =>
                        /\ item.score = FloatOf(line.Result)
                        /\ item.time = FloatOf(line.Time)

\* a line whose Time is "--" and whose Result is a number was parsed as unsolved
C9_Witness ==
    /\ logResult.called
    /\ \E k \in 1..Len(logResult.items) :
          /\ logResult.items[k].isUnsolved
          /\ DecodedLines[k].Time = Str(<<"-", "-">>)
          /\ DecodedLines[k].Result = Str(<<"1", ".", "5">>)
    /\ \E k \in 1..Len(logResult.items) :
          /\ ~logResult.items[k].isUnsolved
          /\ logResult.items[k].score = [t |-> "num", m |-> 15, e |-> 1]

\* C10: no line makes parseLogEntries raise; the lines that do not decode give no
\* record, and the lines that decode give one record each, in line order.
C10_BadLinesSkipped ==
    logResult.called =>
        /\ ~logResult.raised
        /\ Len(logResult.items) = Len(DecodedLines)
        /\ \A k \in 1..Len(logResult.items) :
              /\ logResult.items[k].instance = DecodedLines[k].Instance.s
              /\ logResult.items[k].solutionString = DecodedLines[k].Solution
              /\ logResult.items[k].isUnsolved \/
                    logResult.items[k].score = FloatOf(DecodedLines[k].Result)

\* a file whose first line is the JSON value null and whose second line is well
\* formed gave exactly the second line's record
C10_Witness ==
    /\ logResult.called
    /\ Len(logContent) = 2
    /\ logContent[1] = NullLine
    /\ Decodes(logContent[2])
    /\ Len(logResult.items) = 1
    /\ logResult.items[1].instance = logContent[2].Instance.s

----------------------------------------------------------------------------
(* Claims about the record store and the uploader, checked under Spec       *)

Range(seq) == {seq[k] : k \in 1..Len(seq)}
NoCall == <<0, <<>>>>
WithoutId(seq) == [k \in 1..Len(seq) |-> [seq[k] EXCEPT !.id = uuidv4(NoCall, 0)]]
FromSource(seq, name) == SelectSeq(seq, LAMBDA item : item.sourceName = name)

\* what parsing file f yields, whatever ids its records get
\* what processFile makes of each file of the model
Processed == [f \in Files |-> processFile(f, NoCall)]
ParsedRecords(f) == WithoutId(Processed[f].data)

\* C2: in every store the program reaches, for every file X whose name no stored
\* record carries, appending X's parsed records and then removing by X's name gives
\* back the very same store (same records, same order).
C2_AppendThenRemove ==
    \A f \in Files :
        (\A k \in 1..Len(masterData) : masterData[k].sourceName # f.name) =>
            handleDataCleared(handleDataUpdate(masterData, Processed[f].data),
                              Str(f.name)) = masterData

\* b.log was uploaded, then a.log was uploaded by a second drop and removed again:
\* the store holds exactly what it held before a.log was appended
C2_Witness ==
    /\ Len(drops) = 2
    /\ drops[1].done /\ drops[1].tasks = {FileB.name}
    /\ drops[2].done /\ drops[2].tasks = {FileA.name}
    /\ WithoutId(masterData) = ParsedRecords(FileB)
    /\ Len(masterData) = 1
    /\ ~MapHas(sources, FileA.name)
    /\ MapHas(sources, FileB.name)

\* the records of drop d's batch, as the claim describes them: for each file of the
\* drop that parsed successfully, all its records
BatchCarriesAll(drop, batch) ==
    /\ \A f \in Files :
          (f.name \in drop.tasks /\ Processed[f].status = "success") =>
              WithoutId(FromSource(batch, f.name)) = ParsedRecords(f)
    /\ \A k \in 1..Len(batch) :
          \E f \in Files :
              /\ f.name \in drop.tasks
              /\ Processed[f].status = "success"
              /\ batch[k].sourceName = f.name

\* C3: the store gains records only in the step in which the last parse task of a
\* drop completes, by one append of the records of all the drop's successfully
\* parsed files; a drop that is still parsing has none of its records in the store,
\* and a finished drop appends nothing more.
C3_OneBatchAppend ==
    [][ /\ \A d \in DOMAIN drops :
              /\ ~drops[d].done => Range(drops[d].newDataItems) \cap Range(masterData) = {}
              /\ drops[d].done => drops'[d] = drops[d]
        /\ (Range(masterData') \ Range(masterData) # {}) =>
              \E d \in DOMAIN drops :
                  /\ ~drops[d].done
                  /\ drops'[d].done
                  /\ drops'[d].pending = {}
                  /\ Len(masterData') >= Len(masterData)
                  /\ SubSeq(masterData', 1, Len(masterData)) = masterData
                  /\ BatchCarriesAll(drops[d],
                                     SubSeq(masterData', Len(masterData) + 1,
                                            Len(masterData')))
                  /\ \A e \in DOMAIN drops' \ {d} : e \in DOMAIN drops /\ drops'[e] = drops[e]
      ]_vars

\* a drop of a.log and b.log has finished, b.log's task completing first, and the
\* store holds the records of both files
C3_Witness ==
    /\ Len(drops) >= 1
    /\ drops[1].done
    /\ drops[1].tasks = {FileA.name, FileB.name}
    /\ Len(masterData) = 3
    /\ masterData[1].sourceName = FileB.name
    /\ masterData[3].sourceName = FileA.name

\* C4: the store holds the records of at most one upload per source name: two
\* stored records of the same source were made by the same parser call.
C4_OneUploadPerSource ==
    \A i, j \in 1..Len(masterData) :
        masterData[i].sourceName = masterData[j].sourceName =>
            masterData[i].id[1] = masterData[j].id[1]

----------------------------------------------------------------------------
(* unifiedAnalysis.ts: calculateUnifiedMetrics                             *)

\* Quotients of a number by a count, as reduced fractions p / q
RECURSIVE GCD(_, _)
GCD(a, b) == IF b = 0 THEN a ELSE GCD(b, a % b)

Abs(x) == IF x < 0 THEN -x ELSE x

Ratio(p, q) == [t |-> "num", p |-> p \div GCD(Abs(p), q), q |-> q \div GCD(Abs(p), q)]
Infinity == [t |-> "inf", p |-> 1, q |-> 0]
NegInfinity == [t |-> "inf", p |-> -1, q |-> 0]
NaNRatio == [t |-> "nan", p |-> 0, q |-> 0]

\* a / n on JS numbers, n a count
Divide(a, n) ==
    IF a.t # "num" THEN NaNRatio
    ELSE IF n # 0 THEN Ratio(a.m, Pow10(a.e) * n)
    ELSE IF a.m = 0 THEN NaNRatio
    ELSE IF a.m > 0 THEN Infinity ELSE NegInfinity

\* the metrics of an owner seen for the first time
NewOwnerMetrics ==
    [ totalScore |-> Num(0), avgScore |-> Ratio(0, 1), solvedCount |-> 0,
      totalProblems |-> 0, bestSolutions |-> 0, bySize |-> EmptyMap ]

NewSizeStats == [score |-> Num(0), count |-> 0]

\* !item.isUnsolved && item.score !== null
IsSolved(item) == ~item.isUnsolved /\ item.score # Null

SizeStats(bySize, size) == IF MapHas(bySize, size) THEN bySize[size] ELSE NewSizeStats

\* the bySize map after a solved item of that size
AddBySize(bySize, size, score) ==
    MapSet(bySize, size,
           [ score |-> Add(SizeStats(bySize, size).score, score),
             count |-> SizeStats(bySize, size).count + 1 ])

\* a count that groups by size only the items whose size is not 0
CountNonZeroSizes(performance, item) ==
    IF IsSolved(item)
    THEN [ performance EXCEPT
             !.totalProblems = @ + 1,
             !.totalScore = Add(@, item.score),
             !.solvedCount = @ + 1,
             !.bySize = IF item.numCustomers # Null /\ item.numCustomers # Num(0)
                        THEN AddBySize(@, item.numCustomers, item.score)
                        ELSE @ ]
    ELSE [performance EXCEPT !.totalProblems = @ + 1]

\* a count that leaves out the items that are not solved
CountSolvedOnly(performance, item) ==
    IF IsSolved(item)
    THEN [ performance EXCEPT
             !.totalProblems = @ + 1,
             !.totalScore = Add(@, item.score),
             !.solvedCount = @ + 1 ]
    ELSE performance

\* the owner's metrics after one of the owner's items in the first pass
CountItem(performance, item) ==
    IF IsSolved(item)
    THEN [ performance EXCEPT
             !.totalProblems = @ + 1,
             !.totalScore = Add(@, item.score),
             !.solvedCount = @ + 1,
             !.bySize = IF item.numCustomers # Null
                        THEN AddBySize(@, item.numCustomers, item.score)
                        ELSE @ ]
    ELSE [performance EXCEPT !.totalProblems = @ + 1]

\* instanceBestScores after an item in the first pass
BestAfter(instanceBestScores, item) ==
    IF /\ IsSolved(item)
       /\ \/ ~MapHas(instanceBestScores, item.instance)
          \/ Lt(item.score, instanceBestScores[item.instance])
    THEN MapSet(instanceBestScores, item.instance, item.score)
    ELSE instanceBestScores

OwnerMetricsOf(ownerPerformance, owner) ==
    IF MapHas(ownerPerformance, owner) THEN ownerPerformance[owner] ELSE NewOwnerMetrics

\* the first pass over the rest of data
RECURSIVE FirstPass(_, _, _)
FirstPass(rest, ownerPerformance, instanceBestScores) ==
    IF rest = <<>>
    THEN [ownerPerformance |-> ownerPerformance, instanceBestScores |-> instanceBestScores]
    ELSE FirstPass(Tail(rest),
                   MapSet(ownerPerformance, Head(rest).entryOwner,
                          CountItem(OwnerMetricsOf(ownerPerformance, Head(rest).entryOwner),
                                    Head(rest))),
                   BestAfter(instanceBestScores, Head(rest)))

\* the average of the second pass
AvgScoreUnguarded(performance) == Divide(performance.totalScore, performance.solvedCount)
AvgScore(performance) ==
    IF performance.solvedCount > 0
    THEN Divide(performance.totalScore, performance.solvedCount)
    ELSE Infinity

\* whether the inner loop of the second pass counts the item for the owner
CountsAsBest(item, owner, instanceBestScores) ==
    /\ item.entryOwner = owner
    /\ IsSolved(item)
    /\ MapHas(instanceBestScores, item.instance)
    /\ StrictEq(item.score, instanceBestScores[item.instance])

\* a count that gives a shared best score to the owner of its first record only
TieBrokenBestSolutions(rest, owner, instanceBestScores) ==
    Cardinality({ k \in 1..Len(rest) :
        /\ CountsAsBest(rest[k], owner, instanceBestScores)
        /\ ~\E j \in 1..(k - 1) :
              /\ rest[j].entryOwner # owner
              /\ CountsAsBest(rest[j], rest[j].entryOwner, instanceBestScores)
              /\ rest[j].instance = rest[k].instance })

\* the inner loop of the second pass over the rest of data
RECURSIVE BestSolutions(_, _, _)
BestSolutions(rest, owner, instanceBestScores) ==
    IF rest = <<>> THEN 0
    ELSE (IF CountsAsBest(Head(rest), owner, instanceBestScores) THEN 1 ELSE 0)
             + BestSolutions(Tail(rest), owner, instanceBestScores)

SecondPass(items, first) ==
    [ owner \in DOMAIN first.ownerPerformance |->
        [ first.ownerPerformance[owner] EXCEPT
            !.avgScore = AvgScore(first.ownerPerformance[owner]),
            !.bestSolutions = @ + BestSolutions(items, owner, first.instanceBestScores) ] ]

calculateUnifiedMetrics(items) == SecondPass(items, FirstPass(items, EmptyMap, EmptyMap))

----------------------------------------------------------------------------
(* The analysis applied to record lists                                    *)

MaxRecords == 3

Owners == {FileA.name, FileB.name}

\* log lines whose records the lists are made of: an instance with a size in its
\* name, solved with two scores, unsolved, and with a Result that is not a number;
\* an instance without a size, solved and unsolved; an instance of size 0, solved
InstanceName3 == <<"0", "_", "1", ".", "v", "r", "p">>

MetricLines ==
    { ObjectLine(Str(InstanceName1), Str(<<"0", ".", "2">>), r, Str(<<"s">>)) :
        r \in {Str(<<"1">>), Str(<<"2">>), Sentinel, Str(<<"a">>)} }
    \cup { ObjectLine(Str(InstanceName2), Str(<<"0", ".", "2">>), r, Str(<<"s">>)) :
             r \in {Str(<<"1">>), Sentinel} }
    \cup { ObjectLine(Str(InstanceName3), Str(<<"0", ".", "2">>), Str(<<"2">>), Str(<<"s">>)) }

\* the records parseLogEntries makes of these lines for each owner
MetricRecords ==
    UNION { Range(parseLogEntries(<<line>>, owner, <<0, owner>>).items) :
              line \in MetricLines, owner \in Owners }

InitMetrics ==
    /\ IdleLog
    /\ IdleLb
    /\ IdleStore
    /\ data \in SeqsUpTo(MetricRecords, MaxRecords)
    /\ metrics = NoMetrics
    /\ IdleName
    /\ IdleOutliers
    /\ IdleComparison

CallCalculateUnifiedMetrics ==
    /\ ~metrics.called
    /\ metrics' = [called |-> TRUE, ownerPerformance |-> calculateUnifiedMetrics(data)]
    /\ UNCHANGED <<logContent, logResult, lbDoc, lbResult, masterData, sources, drops,
                   data, nameArg, nameResult, outliers, comparison>>

NextMetrics == CallCalculateUnifiedMetrics

SpecMetrics == InitMetrics /\ [][NextMetrics]_vars

----------------------------------------------------------------------------
(* Claims about the analysis                                               *)

InstancesOf(items) == {items[k].instance : k \in 1..Len(items)}
OwnersOf(items) == {items[k].entryOwner : k \in 1..Len(items)}

\* the solved records of an instance, and those of one owner among them
SolvedOn(items, instance) ==
    {k \in 1..Len(items) : items[k].instance = instance /\ IsSolved(items[k])}
SolvedBy(items, owner, instance) ==
    {k \in SolvedOn(items, instance) : items[k].entryOwner = owner}

\* score is the minimum of the instance: no solved record of the instance is below
\* it, in the order of numbers (a score that is not a number is in no order with
\* any other, so an instance that has one has no minimum)
IsMinimumOn(items, score, instance) ==
    \A k \in SolvedOn(items, instance) :
        Lt(score, items[k].score) \/ StrictEq(score, items[k].score)

HasMinimumOn(items, owner, instance) ==
    \E k \in SolvedBy(items, owner, instance) : IsMinimumOn(items, items[k].score, instance)

WithoutInstance(items, instance) ==
    SelectSeq(items, LAMBDA item : item.instance # instance)

BestSolutionsOf(ownerPerformance, owner) ==
    IF MapHas(ownerPerformance, owner) THEN ownerPerformance[owner].bestSolutions ELSE 0

\* an instance whose minimum is shared by two owners
TiedOn(items, instance) ==
    \E o1 \in OwnersOf(items) : \E o2 \in OwnersOf(items) \ {o1} :
        HasMinimumOn(items, o1, instance) /\ HasMinimumOn(items, o2, instance)

\* C5: when two or more owners have a solved record with the minimum score of an
\* instance, the instance adds to bestSolutions of each of them: each one's count
\* is at least one above the count the same records give without that instance.
C5_TiesAllCredited ==
    metrics.called =>
        \A instance \in InstancesOf(data) :
            TiedOn(data, instance) =>
                \A owner \in OwnersOf(data) :
                    HasMinimumOn(data, owner, instance) =>
                        BestSolutionsOf(metrics.ownerPerformance, owner) >=
                            BestSolutionsOf(
                                calculateUnifiedMetrics(WithoutInstance(data, instance)),
                                owner) + 1

\* two owners share the minimum of an instance and the analysis has run
C5_Witness ==
    /\ metrics.called
    /\ \E instance \in InstancesOf(data) : TiedOn(data, instance)
    /\ \A owner \in Owners : BestSolutionsOf(metrics.ownerPerformance, owner) = 1

RecordsOf(items, owner) == {k \in 1..Len(items) : items[k].entryOwner = owner}
HasSolved(items, owner) == \E k \in RecordsOf(items, owner) : IsSolved(items[k])

\* C6: an owner of the records without a solved record has an entry with avgScore
\* Infinity, bestSolutions 0, solvedCount 0 and totalScore 0, and totalProblems is
\* the number of the owner's records.
C6_NoSolvedRecords ==
    metrics.called =>
        \A owner \in OwnersOf(data) :
            ~HasSolved(data, owner) =>
                /\ MapHas(metrics.ownerPerformance, owner)
                /\ metrics.ownerPerformance[owner].avgScore = Infinity
                /\ metrics.ownerPerformance[owner].bestSolutions = 0
                /\ metrics.ownerPerformance[owner].solvedCount = 0
                /\ metrics.ownerPerformance[owner].totalScore = Num(0)
                /\ metrics.ownerPerformance[owner].totalProblems =
                       Cardinality(RecordsOf(data, owner))

\* one owner has two records, none solved, next to an owner with a solved one
C6_Witness ==
    /\ metrics.called
    /\ \E owner \in OwnersOf(data) :
          /\ ~HasSolved(data, owner)
          /\ metrics.ownerPerformance[owner].totalProblems = 2
          /\ \E other \in OwnersOf(data) \ {owner} : HasSolved(data, other)

BestInstancesOf(items, owner) ==
    {instance \in InstancesOf(items) : HasMinimumOn(items, owner, instance)}
SolvedInstancesOf(items, owner) ==
    {instance \in InstancesOf(items) : SolvedBy(items, owner, instance) # {}}

\* C7: bestSolutions of an owner is the number of distinct instances on which the
\* owner's score is the minimum of the instance, and so never exceeds the number of
\* distinct instances the owner has a solved record for.
C7_BestSolutionsCountsInstances ==
    metrics.called =>
        \A owner \in DOMAIN metrics.ownerPerformance :
            /\ metrics.ownerPerformance[owner].bestSolutions =
                   Cardinality(BestInstancesOf(data, owner))
            /\ metrics.ownerPerformance[owner].bestSolutions <=
                   Cardinality(SolvedInstancesOf(data, owner))

Permuted(items, p) == [k \in 1..Len(items) |-> items[p[k]]]

\* C8: the metrics are the same for every permutation of the records.
C8_OrderIrrelevant ==
    metrics.called =>
        \A p \in Permutations(1..Len(data)) :
            calculateUnifiedMetrics(Permuted(data, p)) = metrics.ownerPerformance

----------------------------------------------------------------------------
(* Claims about the leaderboard parser, checked under SpecParse             *)

\* the payload is an object whose columns and entries are arrays of objects
WellFormedDoc ==
    /\ lbDoc.hasDiv
    /\ lbDoc.props = "object"
    /\ lbDoc.columns.arr
    /\ lbDoc.entries.arr
    /\ \A k \in 1..Len(lbDoc.columns.elems) : ~lbDoc.columns.elems[k].isNull
    /\ \A k \in 1..Len(lbDoc.entries.elems) : ~lbDoc.entries.elems[k].isNull

\* the fixed exclusion set, as the specification lists it
ExclusionSet ==
    { <<"T", "o", "t", "a", "l", " ", "t", "i", "m", "e">>,
      <<"R", "a", "n", "k">>,
      <<"S", "u", "b", "m", "i", "s", "s", "i", "o", "n", " ", "N", "a", "m", "e">>,
      <<"A", "v", "g", " ", "T", "i", "m", "e">>,
      <<"S", "u", "b", "m", "i", "s", "s", "i", "o", "n", "s">>,
      <<"P", "r", "o", "b", "l", "e", "m", "s", " ", "S", "o", "l", "v", "e", "d">>,
      <<"n", "a", "m", "e">>,
      <<"a", "s", "s", "i", "g", "n", "m", "e", "n", "t", "_", "s", "u", "b", "m", "i",
        "s", "s", "i", "o", "n", "_", "i", "d">> }

\* the problem-instance columns of the payload: the column names outside the
\* exclusion set, in column order
InstanceColumn(column) ==
    column.name.t = "str" /\ column.name.s # <<>> /\ column.name.s \notin ExclusionSet
InstanceColumns ==
    [k \in 1..Len(SelectSeq(lbDoc.columns.elems, InstanceColumn)) |->
        SelectSeq(lbDoc.columns.elems, InstanceColumn)[k].name.s]

\* the value a row has under a key
ValueAt(row, key) ==
    IF key \in DOMAIN lbDoc.entries.elems[row].cells
    THEN lbDoc.entries.elems[row].cells[key] ELSE Undefined

Attempted(row, key) == ValueAt(row, key).t \notin {"undef", "null"}

\* the (row, column) pairs whose cell is neither undefined nor null, row by row
RECURSIVE RowPairs(_, _)
RowPairs(row, names) ==
    IF names = <<>> THEN <<>>
    ELSE (IF Attempted(row, Head(names))
          THEN <<[row |-> row, column |-> Head(names)]>> ELSE <<>>)
         \o RowPairs(row, Tail(names))

RECURSIVE PairsFrom(_)
PairsFrom(row) ==
    IF row > Len(lbDoc.entries.elems) THEN <<>>
    ELSE RowPairs(row, InstanceColumns) \o PairsFrom(row + 1)

CellPairs == PairsFrom(1)

\* the trimmed text of the cell of a pair
TextOf(pair) == Trim(CellToString(ValueAt(pair.row, pair.column)))

\* text matches /^--\s*\[([\d.]+)\]$/
DashBracket(text) ==
    /\ StartsWith(text, <<"-", "-">>)
    /\ BracketAt(Drop(text, 2)).ok
    /\ BracketAt(Drop(text, 2)).rest = <<>>

UnsolvedForm(text) == text = <<"-", "-">> \/ text = <<>> \/ DashBracket(text)

\* C11: a cell whose trimmed text is "--", is empty or matches
\* /^--\s*\[([\d.]+)\]$/ gives an unsolved record with a null score, whose time is
\* the bracketed number when there is one and null otherwise.
C11_UnsolvedForms ==
    (lbResult.called /\ WellFormedDoc) =>
        \A k \in DOMAIN lbResult.items \cap DOMAIN CellPairs :
            UnsolvedForm(TextOf(CellPairs[k])) =>
                /\ lbResult.items[k].isUnsolved
                /\ lbResult.items[k].score = Null
                /\ lbResult.items[k].time =
                       IF DashBracket(TextOf(CellPairs[k]))
                       THEN ParseFloat(BracketAt(Drop(TextOf(CellPairs[k]), 2)).group)
                       ELSE Null

\* a decimal numeral: digits with at most one point, and its value
IsDecimal(s) ==
    /\ \A k \in 1..Len(s) : s[k] \in Digits \cup {"."}
    /\ Cardinality({k \in 1..Len(s) : s[k] = "."}) <= 1
    /\ \E k \in 1..Len(s) : s[k] \in Digits

PointAt(s) == IF \E k \in 1..Len(s) : s[k] = "." THEN CHOOSE k \in 1..Len(s) : s[k] = "."
              ELSE Len(s)

DecimalValue(s) ==
    Norm(DigitsToInt(SelectSeq(s, LAMBDA c : c \in Digits)), Len(s) - PointAt(s))

\* the parts of a text of the form SCORE or SCORE [TIME]
BracketPos(text) ==
    IF \E k \in 1..Len(text) : text[k] = "["
    THEN CHOOSE k \in 1..Len(text) : text[k] = "[" /\ \A j \in 1..(k - 1) : text[j] # "["
    ELSE 0
ScoreText(text) ==
    IF BracketPos(text) = 0 THEN text ELSE TrimEnd(Take(text, BracketPos(text) - 1))
TimeText(text) == SubSeq(text, BracketPos(text) + 1, Len(text) - 1)

SolvedForm(text) ==
    /\ IsDecimal(ScoreText(text))
    /\ BracketPos(text) # 0 => text[Len(text)] = "]" /\ IsDecimal(TimeText(text))

RowName(row) ==
    IF ValueAt(row, <<"n", "a", "m", "e">>).t = "str"
          /\ ValueAt(row, <<"n", "a", "m", "e">>).s # <<>>
    THEN ValueAt(row, <<"n", "a", "m", "e">>).s
    ELSE <<"U", "n", "k", "n", "o", "w", "n", " ", "P", "a", "r", "t", "i", "c", "i", "p",
           "a", "n", "t">>

\* C13: the records are, in order, one for each (row, problem-instance column) pair
\* whose cell is neither undefined nor null, and none for the other pairs; each
\* carries the column as instance, the row's name or "Unknown Participant" as
\* entryOwner, and sourceType "leaderboard".
C13_OneRecordPerCell ==
    (lbResult.called /\ WellFormedDoc) =>
        /\ Len(lbResult.items) = Len(CellPairs)
        /\ \A k \in DOMAIN lbResult.items \cap DOMAIN CellPairs :
              /\ lbResult.items[k].instance = CellPairs[k].column
              /\ lbResult.items[k].entryOwner = RowName(CellPairs[k].row)
              /\ lbResult.items[k].sourceType = "leaderboard"

\* a row without a name, with an empty cell under the first of two columns and no
\* cell under the second, gave one record
C13_Witness ==
    /\ lbResult.called
    /\ WellFormedDoc
    /\ Len(InstanceColumns) = 2
    /\ Len(lbDoc.entries.elems) = 1
    /\ ValueAt(1, <<"n", "a", "m", "e">>) = Undefined
    /\ ValueAt(1, InstanceColumns[1]) = Str(<<>>)
    /\ ~Attempted(1, InstanceColumns[2])
    /\ Len(lbResult.items) = 1
    /\ lbResult.items[1].entryOwner # <<"P">>

\* C14: whatever the document, the parser returns a record list and throws
\* nothing.
C14_NeverThrows == lbResult.called => ~lbResult.raised

\* C15: every record's instance is a column name of the payload outside the
\* exclusion set, also when the row has a value under an excluded key.
C15_NoExcludedInstance ==
    (lbResult.called /\ ~lbResult.raised) =>
        \A k \in 1..Len(lbResult.items) :
            /\ lbResult.items[k].instance \notin ExclusionSet
            /\ \E c \in 1..Len(lbDoc.columns.elems) :
                  lbDoc.columns.elems[c].name = Str(lbResult.items[k].instance)

\* the payload has the column Rank, the row has a value under it, and a record of
\* another column was emitted
C15_Witness ==
    /\ lbResult.called
    /\ WellFormedDoc
    /\ \E c \in 1..Len(lbDoc.columns.elems) :
          lbDoc.columns.elems[c].name = Str(<<"R", "a", "n", "k">>)
    /\ Len(lbDoc.entries.elems) = 1
    /\ Attempted(1, <<"R", "a", "n", "k">>)
    /\ Len(lbResult.items) = 1

----------------------------------------------------------------------------
(* SpecName: parseGenericInstanceName applied to every name of the set below *)

MaxSegments == 3

\* segments of names: empty, integers (one with a leading zero), a negative
\* number, numbers followed by letters, and a word
Segments ==
    { <<>>, <<"5">>, <<"1", "2">>, <<"0", "7">>, <<"-", "5">>, <<"1", "2", "a">>,
      <<"3", "b">>, <<"x">> }

NameEndings ==
    { <<>>, <<".", "v", "r", "p">>, <<".", "t", "x", "t">>, <<".", "V", "R", "P">>,
      <<".", "l", "o", "g">> }

\* up to MaxSegments segments joined by underscores, then an ending
InstanceNames ==
    { Join(segs, "_") \o ending :
        segs \in SeqsUpTo(Segments, MaxSegments), ending \in NameEndings }

InitName ==
    /\ IdleLog
    /\ IdleLb
    /\ IdleStore
    /\ IdleMetrics
    /\ IdleOutliers
    /\ IdleComparison
    /\ nameArg \in InstanceNames
    /\ nameResult = NoDetails

CallParseGenericInstanceName ==
    /\ ~nameResult.called
    /\ nameResult' = [called |-> TRUE, details |-> parseGenericInstanceName(nameArg)]
    /\ UNCHANGED <<logContent, logResult, lbDoc, lbResult, masterData, sources, drops,
                   data, metrics, nameArg, outliers, comparison>>

NextName == CallParseGenericInstanceName

SpecName == InitName /\ [][NextName]_vars

----------------------------------------------------------------------------
(* Claims about parseGenericInstanceName, checked under SpecName            *)

\* C16: for every input string the result has a baseInstanceName that is not
\* empty.
C16_BaseNameNonEmpty == nameResult.called => nameResult.details.baseInstanceName # <<>>

\* the position of the first c in s, or 0
FirstIndexOf(s, c) ==
    IF \E k \in 1..Len(s) : s[k] = c
    THEN CHOOSE k \in 1..Len(s) : s[k] = c /\ \A j \in 1..(k - 1) : s[j] # c
    ELSE 0

\* s up to its first underscore, and what follows that underscore
FirstSegment(s) == IF FirstIndexOf(s, "_") = 0 THEN s ELSE Take(s, FirstIndexOf(s, "_") - 1)
AfterFirst(s) == Drop(s, FirstIndexOf(s, "_"))
HasUnderscore(s) == FirstIndexOf(s, "_") # 0

IsUnsignedInteger(s) == s # <<>> /\ \A k \in 1..Len(s) : s[k] \in Digits

\* name without its ending .vrp or .txt, for a name that has one
HasVrpOrTxt(name) ==
    Len(name) >= 4 /\ SubSeq(name, Len(name) - 3, Len(name)) \in
                          {<<".", "v", "r", "p">>, <<".", "t", "x", "t">>}
Stem(name) == Take(name, Len(name) - 4)

\* name has the form <digits>_<digits>[_<rest>].(vrp|txt)
SizedForm(name) ==
    /\ HasVrpOrTxt(name)
    /\ HasUnderscore(Stem(name))
    /\ IsUnsignedInteger(FirstSegment(Stem(name)))
    /\ IsUnsignedInteger(FirstSegment(AfterFirst(Stem(name))))

\* C17: for a name <digits>_<digits>[_<rest>].(vrp|txt) the sizes are the two
\* leading integers, problemVariant is <rest>, or "default" without a third
\* segment, and baseInstanceName is "<numCustomers>_<numVehicles>".
C17_SizedNames ==
    (nameResult.called /\ SizedForm(nameArg)) =>
        /\ nameResult.details.numCustomers = Num(DigitsToInt(FirstSegment(Stem(nameArg))))
        /\ nameResult.details.numVehicles =
               Num(DigitsToInt(FirstSegment(AfterFirst(Stem(nameArg)))))
        /\ nameResult.details.problemVariant =
               IF HasUnderscore(AfterFirst(Stem(nameArg)))
               THEN AfterFirst(AfterFirst(Stem(nameArg)))
               ELSE <<"d", "e", "f", "a", "u", "l", "t">>
        /\ nameResult.details.baseInstanceName =
               IntToChars(nameResult.details.numCustomers.m) \o <<"_">>
                   \o IntToChars(nameResult.details.numVehicles.m)

\* the name 12_07_x.txt was parsed
C17_Witness ==
    /\ nameResult.called
    /\ nameArg = <<"1", "2", "_", "0", "7", "_", "x", ".", "t", "x", "t">>
    /\ nameResult.details.numCustomers = Num(12)
    /\ nameResult.details.numVehicles = Num(7)
    /\ nameResult.details.problemVariant = <<"x">>
    /\ nameResult.details.baseInstanceName = <<"1", "2", "_", "7">>

\* the first two segments of the name without its extension are unsigned integers
LeadingIntegerPair(name) ==
    /\ HasUnderscore(StripExtension(name))
    /\ IsUnsignedInteger(FirstSegment(StripExtension(name)))
    /\ IsUnsignedInteger(FirstSegment(AfterFirst(StripExtension(name))))

\* C18: a name whose first two segments are not both unsigned integers gets no
\* sizes.
C18_SizesOnlyForIntegers ==
    (nameResult.called /\ ~LeadingIntegerPair(nameArg)) =>
        /\ nameResult.details.numCustomers = Null
        /\ nameResult.details.numVehicles = Null

\* the last underscore of the name without its extension has text after it
SuffixAfterUnderscore(name) ==
    /\ HasUnderscore(StripExtension(name))
    /\ StripExtension(name)[Len(StripExtension(name))] # "_"

\* C19: a name without a leading integer pair whose last underscore is followed by
\* text gets no sizes, and baseInstanceName, "_" and problemVariant put together
\* are the name without its extension.
C19_Reconstructs ==
    (nameResult.called /\ ~LeadingIntegerPair(nameArg) /\ SuffixAfterUnderscore(nameArg)) =>
        /\ nameResult.details.numCustomers = Null
        /\ nameResult.details.numVehicles = Null
        /\ nameResult.details.baseInstanceName \o <<"_">>
               \o nameResult.details.problemVariant = StripExtension(nameArg)

----------------------------------------------------------------------------
(* UnifiedInsights: findProblemOutliers                                    *)

\* Maps whose iteration order matters: the keys in insertion order, and the values
NewOrderedMap == [keys |-> <<>>, vals |-> EmptyMap]
OrderedHas(m, k) == MapHas(m.vals, k)
OrderedSet(m, k, v) ==
    [ keys |-> IF OrderedHas(m, k) THEN m.keys ELSE Append(m.keys, k),
      vals |-> MapSet(m.vals, k, v) ]

\* instanceMap.get(instance), after the set of lines 169-171
OwnerMapOf(instanceMap, instance) ==
    IF OrderedHas(instanceMap, instance) THEN instanceMap.vals[instance] ELSE NewOrderedMap

\* a grouping that keeps the first record of an instance and owner
RECURSIVE GroupFirstRecords(_, _)
GroupFirstRecords(rest, instanceMap) ==
    IF rest = <<>> THEN instanceMap
    ELSE GroupFirstRecords(
             Tail(rest),
             IF OrderedHas(OwnerMapOf(instanceMap, Head(rest).instance), Head(rest).entryOwner)
             THEN instanceMap
             ELSE OrderedSet(instanceMap, Head(rest).instance,
                             OrderedSet(OwnerMapOf(instanceMap, Head(rest).instance),
                                        Head(rest).entryOwner, Head(rest))))

\* lines 168-173: group the rest of the data by instance, then by owner
RECURSIVE GroupOutlierData(_, _)
GroupOutlierData(rest, instanceMap) ==
    IF rest = <<>> THEN instanceMap
    ELSE GroupOutlierData(
             Tail(rest),
             OrderedSet(instanceMap, Head(rest).instance,
                        OrderedSet(OwnerMapOf(instanceMap, Head(rest).instance),
                                   Head(rest).entryOwner, Head(rest))))

\* Infinity and -Infinity as numbers, and < on numbers that may be infinite
PlusInfinity == [t |-> "inf", m |-> 1, e |-> 0]
MinusInfinity == [t |-> "inf", m |-> -1, e |-> 0]

LtInf(a, b) ==
    IF a.t = "nan" \/ b.t = "nan" THEN FALSE
    ELSE IF a.t = "inf" /\ b.t = "inf" THEN a.m < b.m
    ELSE IF a.t = "inf" THEN a.m < 0
    ELSE IF b.t = "inf" THEN b.m > 0
    ELSE Lt(a, b)

\* data.isUnsolved || data.score === null
CountsAsUnsolved(item) == item.isUnsolved \/ item.score = Null

\* lines 181-190: the owners pushed to unsolvedOwners, the keys of solvedScores
unsolvedOwnersOf(ownerMap) ==
    SelectSeq(ownerMap.keys, LAMBDA owner : CountsAsUnsolved(ownerMap.vals[owner]))
solvedOwnersOf(ownerMap) ==
    SelectSeq(ownerMap.keys, LAMBDA owner : ~CountsAsUnsolved(ownerMap.vals[owner]))

\* lines 203-217: the loop over solvedScores, from the state it has reached
RECURSIVE BestAndWorst(_, _, _)
BestAndWorst(owners, ownerMap, st) ==
    IF owners = <<>> THEN st
    ELSE BestAndWorst(
             Tail(owners), ownerMap,
             [ bestResult |-> IF LtInf(ownerMap.vals[Head(owners)].score, st.bestResult)
                              THEN ownerMap.vals[Head(owners)].score ELSE st.bestResult,
               bestOwner |-> IF LtInf(ownerMap.vals[Head(owners)].score, st.bestResult)
                             THEN Head(owners) ELSE st.bestOwner,
               worstResult |-> IF LtInf(st.worstResult, ownerMap.vals[Head(owners)].score)
                               THEN ownerMap.vals[Head(owners)].score ELSE st.worstResult,
               worstOwner |-> IF LtInf(st.worstResult, ownerMap.vals[Head(owners)].score)
                              THEN Head(owners) ELSE st.worstOwner ])

NoBestAndWorst ==
    [ bestResult |-> PlusInfinity, bestOwner |-> <<>>,
      worstResult |-> MinusInfinity, worstOwner |-> <<>> ]

\* lines 219-222: gap > 0.2 || (bestResult === 0 && worstResult > 10), the gap in
\* exact arithmetic: for a finite best above 0 it is (worst - best) / best, which
\* exceeds 1/5 when 5 * (worst - best) > best; for an infinite best it is NaN
SignificantGap(bw) ==
    IF LtInf(Num(0), bw.bestResult)
    THEN /\ bw.bestResult.t = "num"
         /\ bw.worstResult.t = "num"
         /\ 5 * (bw.worstResult.m * Pow10(bw.bestResult.e)
                   - bw.bestResult.m * Pow10(bw.worstResult.e))
               > bw.bestResult.m * Pow10(bw.worstResult.e)
    ELSE \/ LtInf(Num(0), bw.worstResult)
         \/ bw.bestResult = Num(0) /\ LtInf(Num(10), bw.worstResult)

\* the two kinds of observation, by their parts
SolvedUnsolvedObservation(instance, ownerMap) ==
    [ instance |-> instance, kind |-> "solvedUnsolved",
      solved |-> solvedOwnersOf(ownerMap), unsolved |-> unsolvedOwnersOf(ownerMap),
      best |-> NoBestAndWorst ]
GapObservation(instance, bw) ==
    [ instance |-> instance, kind |-> "gap", solved |-> <<>>, unsolved |-> <<>>,
      best |-> bw ]

\* lines 201-228, for an instance that passed the first check
GapOutliers(instance, ownerMap, bw) ==
    IF /\ Len(solvedOwnersOf(ownerMap)) = Len(ownerMap.keys)
       /\ Len(solvedOwnersOf(ownerMap)) > 1
       /\ SignificantGap(bw)
    THEN <<GapObservation(instance, bw)>>
    ELSE <<>>

\* a body that reports the score gap of an instance before looking at who solved it
GapFirstOutliers(instance, ownerMap) ==
    IF Len(ownerMap.keys) < 2 THEN <<>>
    ELSE IF Len(solvedOwnersOf(ownerMap)) > 1
            /\ SignificantGap(BestAndWorst(solvedOwnersOf(ownerMap), ownerMap, NoBestAndWorst))
    THEN <<GapObservation(instance,
                          BestAndWorst(solvedOwnersOf(ownerMap), ownerMap, NoBestAndWorst))>>
    ELSE IF Len(solvedOwnersOf(ownerMap)) > 0 /\ Len(unsolvedOwnersOf(ownerMap)) > 0
    THEN <<SolvedUnsolvedObservation(instance, ownerMap)>>
    ELSE <<>>

\* lines 178-228: the body of the loop for one instance
InstanceOutliers(instance, ownerMap) ==
    IF Len(ownerMap.keys) < 2 THEN <<>>
    ELSE IF Len(solvedOwnersOf(ownerMap)) > 0 /\ Len(unsolvedOwnersOf(ownerMap)) > 0
    THEN <<SolvedUnsolvedObservation(instance, ownerMap)>>
    ELSE GapOutliers(instance, ownerMap,
                     BestAndWorst(solvedOwnersOf(ownerMap), ownerMap, NoBestAndWorst))

\* lines 177-229: the loop over instanceMap.entries()
RECURSIVE OutliersLoop(_, _)
OutliersLoop(instances, instanceMap) ==
    IF instances = <<>> THEN <<>>
    ELSE InstanceOutliers(Head(instances), instanceMap.vals[Head(instances)])
         \o OutliersLoop(Tail(instances), instanceMap)

\* outliers.slice(0, 5)
MaxOutliers == 5

\* a slice that keeps the end of the list
SliceFromEnd(list) ==
    IF Len(list) > MaxOutliers
    THEN SubSeq(list, Len(list) - MaxOutliers + 1, Len(list)) ELSE list

SliceOutliers(list) == IF Len(list) > MaxOutliers THEN SubSeq(list, 1, MaxOutliers) ELSE list

GroupedOutliers(instanceMap) == SliceOutliers(OutliersLoop(instanceMap.keys, instanceMap))

findProblemOutliers(unifiedData, owners) ==
    GroupedOutliers(GroupOutlierData(unifiedData, NewOrderedMap))

\* lines 14-16 and 107 of UnifiedInsights: without metrics there are no outliers
problemSizeOutliers(unifiedData, ownerPerformance) ==
    IF DOMAIN ownerPerformance = {} THEN <<>>
    ELSE findProblemOutliers(unifiedData, DOMAIN ownerPerformance)

----------------------------------------------------------------------------
(* unifiedAnalysis: groupUnifiedDataByInstance, and InstanceComparisonTable *)

\* lines 102-114: the loop of lines 168-173 of findProblemOutliers, on a new Map
groupUnifiedDataByInstance(items) == GroupOutlierData(items, NewOrderedMap)

\* lines 349-355 of the table: the loop over instanceEntries, from a best result
RECURSIVE BestEntry(_, _, _)
BestEntry(owners, instanceEntries, bestResult) ==
    IF owners = <<>> THEN bestResult
    ELSE BestEntry(
             Tail(owners), instanceEntries,
             IF /\ ~instanceEntries.vals[Head(owners)].isUnsolved
                /\ instanceEntries.vals[Head(owners)].score # Null
                /\ LtInf(instanceEntries.vals[Head(owners)].score, bestResult)
             THEN instanceEntries.vals[Head(owners)].score
             ELSE bestResult)

\* lines 365-378: the cell of an owner in the row of an instance
ComparisonCell(instanceEntries, owner, bestResult) ==
    IF ~OrderedHas(instanceEntries, owner)
    THEN [kind |-> "N/A", score |-> Null, isBest |-> FALSE]
    ELSE IF instanceEntries.vals[owner].isUnsolved \/ instanceEntries.vals[owner].score = Null
    THEN [kind |-> "Unsolved", score |-> Null, isBest |-> FALSE]
    ELSE [ kind |-> "Score", score |-> instanceEntries.vals[owner].score,
           isBest |-> /\ bestResult # PlusInfinity
                      /\ StrictEq(instanceEntries.vals[owner].score, bestResult) ]

\* the rows of the table by instance and the cells of a row by owner; the order
\* of the rows and of the columns is not represented
ComparisonCells(groupedData, owners) ==
    [ instance \in Range(groupedData.keys), owner \in owners |->
        ComparisonCell(groupedData.vals[instance], owner,
                       BestEntry(groupedData.vals[instance].keys,
                                 groupedData.vals[instance], PlusInfinity)) ]

ComparisonOf(groupedData, owners) ==
    [ called |-> TRUE, groupedData |-> groupedData, owners |-> owners,
      cells |-> ComparisonCells(groupedData, owners) ]

InstanceComparisonTable(unifiedData) ==
    ComparisonOf(groupUnifiedDataByInstance(unifiedData),
                 {unifiedData[k].entryOwner : k \in 1..Len(unifiedData)})

----------------------------------------------------------------------------
(* Specification of the outliers: findProblemOutliers on lists of records  *)

MaxInstances == 6

OutlierOwners == <<FileA.name, FileB.name, FileE.name>>

\* the record parseLogEntries makes for an owner of one line with this Result
OutlierRecord(owner, instanceName, result) ==
    parseLogEntries(<<ObjectLine(Str(instanceName), Str(<<"0", ".", "2">>), result,
                                 Str(<<"s">>))>>,
                    owner, <<0, owner>>).items[1]

\* records of free lists: an instance that the first owner solved with -5, 0, 10
\* or 13, the second with 10, 12 or 13 and the third with 13, or that they did
\* not solve; a second instance that one owner solved and another did not
OutlierRecords ==
    { OutlierRecord(OutlierOwners[1], InstanceName1, r) :
        r \in {Str(<<"-", "5">>), Str(<<"0">>), Str(<<"1", "0">>), Str(<<"1", "3">>), Sentinel} }
    \cup { OutlierRecord(OutlierOwners[2], InstanceName1, r) :
             r \in {Str(<<"1", "0">>), Str(<<"1", "2">>), Str(<<"1", "3">>), Sentinel} }
    \cup { OutlierRecord(OutlierOwners[3], InstanceName1, r) : r \in {Str(<<"1", "3">>), Sentinel} }
    \cup { OutlierRecord(OutlierOwners[1], InstanceName2, Str(<<"1", "0">>)),
           OutlierRecord(OutlierOwners[2], InstanceName2, Sentinel) }

\* lists of many instances: each instance has one owner, has one owner who
\* solved it and one who did not, or has two owners with scores 10 and 13
InstanceDigits == <<"1", "2", "3", "4", "5", "6", "7", "8", "9">>
NumberedInstance(k) == <<"p", InstanceDigits[k]>>
BlockKinds == {"single", "mixed", "gap"}

Block ==
    [ k \in 1..MaxInstances, kind \in BlockKinds |->
        IF kind = "single"
        THEN <<OutlierRecord(OutlierOwners[1], NumberedInstance(k), Str(<<"1", "0">>))>>
        ELSE IF kind = "mixed"
        THEN << OutlierRecord(OutlierOwners[1], NumberedInstance(k), Str(<<"1", "0">>)),
                OutlierRecord(OutlierOwners[2], NumberedInstance(k), Sentinel) >>
        ELSE << OutlierRecord(OutlierOwners[1], NumberedInstance(k), Str(<<"1", "0">>)),
                OutlierRecord(OutlierOwners[2], NumberedInstance(k), Str(<<"1", "3">>)) >> ]

RECURSIVE Blocks(_, _)
Blocks(kinds, k) ==
    IF k > MaxInstances THEN <<>> ELSE Block[k, kinds[k]] \o Blocks(kinds, k + 1)

BlockLists == { Blocks(kinds, 1) : kinds \in [1..MaxInstances -> BlockKinds] }

\* lists with a repeated pair: three owners' records for the first instance, then
\* another record of the first of these owners for it
RepeatLists ==
    { <<a, b, c, d>> : a, b, c, d \in {r \in OutlierRecords : r.instance = InstanceName1} } \cap
    { l \in Seq(OutlierRecords) :
        /\ Len(l) = 4
        /\ Cardinality({l[1].entryOwner, l[2].entryOwner, l[3].entryOwner}) = 3
        /\ l[4].entryOwner = l[1].entryOwner }

InitOutliers ==
    /\ IdleLog
    /\ IdleLb
    /\ IdleStore
    /\ IdleName
    /\ data \in SeqsUpTo(OutlierRecords, MaxRecords) \cup BlockLists \cup RepeatLists
    /\ metrics = NoMetrics
    /\ outliers = NoOutliers
    /\ comparison = NoComparison

\* what the tabs of UnifiedAnalysisDisplay compute for the same unifiedData: the
\* table of InstanceComparisonTable and the two memos of UnifiedInsights
RenderUnifiedAnalysisDisplay ==
    /\ ~outliers.called
    /\ comparison' = InstanceComparisonTable(data)
    /\ metrics' = [called |-> TRUE, ownerPerformance |-> calculateUnifiedMetrics(data)]
    /\ outliers' = [called |-> TRUE,
                    list |-> problemSizeOutliers(data, calculateUnifiedMetrics(data))]
    /\ UNCHANGED <<logContent, logResult, lbDoc, lbResult, masterData, sources, drops,
                   data, nameArg, nameResult>>

NextOutliers == RenderUnifiedAnalysisDisplay

SpecOutliers == InitOutliers /\ [][NextOutliers]_vars

----------------------------------------------------------------------------
(* Claims about findProblemOutliers, checked under SpecOutliers            *)

\* the positions of the records of an instance, and of an owner for an instance
PositionsOf(instance) == {k \in 1..Len(data) : data[k].instance = instance}
AttemptsOf(instance, owner) == {k \in PositionsOf(instance) : data[k].entryOwner = owner}
AttemptingOwners(instance) == {data[k].entryOwner : k \in PositionsOf(instance)}

Highest(S) == CHOOSE k \in S : \A j \in S : j <= k
Lowest(S) == CHOOSE k \in S : \A j \in S : k <= j

\* an owner solved an instance when the owner's last record for it has a score
SolvedIt(instance, owner) ==
    /\ ~data[Highest(AttemptsOf(instance, owner))].isUnsolved
    /\ data[Highest(AttemptsOf(instance, owner))].score # Null
SolversOf(instance) == {owner \in AttemptingOwners(instance) : SolvedIt(instance, owner)}
NonSolversOf(instance) == AttemptingOwners(instance) \ SolversOf(instance)

SolvedAndUnsolved(instance) ==
    /\ Cardinality(AttemptingOwners(instance)) >= 2
    /\ SolversOf(instance) # {}
    /\ NonSolversOf(instance) # {}

ObservationsOn(instance) ==
    {k \in 1..Len(outliers.list) : outliers.list[k].instance = instance}

\* exactly one observation on the instance, naming who solved it and who did not
OneSolvedUnsolvedObservation(instance) ==
    /\ Cardinality(ObservationsOn(instance)) = 1
    /\ \A k \in ObservationsOn(instance) :
         /\ outliers.list[k].kind = "solvedUnsolved"
         /\ Range(outliers.list[k].solved) = SolversOf(instance)
         /\ Range(outliers.list[k].unsolved) = NonSolversOf(instance)

\* five observations were made for instances that appear before this one
CrowdedOut(instance) ==
    /\ ObservationsOn(instance) = {}
    /\ Len(outliers.list) = 5
    /\ \A k \in 1..5 :
         Lowest(PositionsOf(outliers.list[k].instance)) < Lowest(PositionsOf(instance))

\* C20, as stated: every instance that two or more owners attempted, one of whom
\* solved it and one of whom did not, has exactly one observation, which names
\* the owners who solved it and those who did not, and has no score-gap
\* observation; an instance attempted by fewer than two owners has no observation
C20_EverySolvedUnsolvedObserved ==
    outliers.called =>
      \A instance \in InstancesOf(data) :
        /\ SolvedAndUnsolved(instance) => OneSolvedUnsolvedObservation(instance)
        /\ Cardinality(AttemptingOwners(instance)) < 2 => ObservationsOn(instance) = {}

\* C20, within the five observations that are kept: such an instance has exactly
\* one observation, naming the owners who solved it and those who did not, unless
\* five observations were made for instances that appear before it; it never has
\* a score-gap observation; an instance attempted by fewer than two owners has
\* no observation
C20_SolvedUnsolvedObserved ==
    outliers.called =>
      \A instance \in InstancesOf(data) :
        /\ SolvedAndUnsolved(instance) =>
             \/ OneSolvedUnsolvedObservation(instance)
             \/ CrowdedOut(instance)
        /\ SolvedAndUnsolved(instance) =>
             \A k \in ObservationsOn(instance) : outliers.list[k].kind # "gap"
        /\ Cardinality(AttemptingOwners(instance)) < 2 => ObservationsOn(instance) = {}

\* two owners solved an instance with a gap between their scores, a third did not
\* solve it, and the one observation names them
C20_Witness ==
    /\ outliers.called
    /\ \E instance \in InstancesOf(data) :
         /\ SolvedAndUnsolved(instance)
         /\ Cardinality(SolversOf(instance)) = 2
         /\ \E a, b \in SolversOf(instance) :
              /\ data[Highest(AttemptsOf(instance, a))].score = Num(10)
              /\ data[Highest(AttemptsOf(instance, b))].score = Num(13)
         /\ OneSolvedUnsolvedObservation(instance)

\* the score of an owner's last record for an instance
LastScore(instance, owner) == data[Highest(AttemptsOf(instance, owner))].score

\* all of the two or more owners who attempted the instance solved it, with numbers
AllSolved(instance) ==
    /\ Cardinality(AttemptingOwners(instance)) >= 2
    /\ NonSolversOf(instance) = {}
    /\ \A owner \in AttemptingOwners(instance) : LastScore(instance, owner).t = "num"

HoldsMinimum(instance, owner) ==
    \A other \in AttemptingOwners(instance) :
      ~Lt(LastScore(instance, other), LastScore(instance, owner))
HoldsMaximum(instance, owner) ==
    \A other \in AttemptingOwners(instance) :
      ~Lt(LastScore(instance, owner), LastScore(instance, other))

\* (worst - best) / best > 20 %, for a best that is not 0: both sides brought to
\* the same power of ten and multiplied by 5 * best, whose sign turns the comparison
RelativeGapAboveFifth(b, w) ==
    IF b.m > 0
    THEN 5 * (w.m * Pow10(b.e) - b.m * Pow10(w.e)) > b.m * Pow10(w.e)
    ELSE 5 * (w.m * Pow10(b.e) - b.m * Pow10(w.e)) < b.m * Pow10(w.e)

\* the rule of the statement for a best and a worst score
GapRule(b, w) ==
    IF b.m = 0 THEN w.m > 0 \/ Lt(Num(10), w)
    ELSE RelativeGapAboveFifth(b, w)

GapRuleOn(instance) ==
    \E bo, wo \in AttemptingOwners(instance) :
      /\ HoldsMinimum(instance, bo)
      /\ HoldsMaximum(instance, wo)
      /\ GapRule(LastScore(instance, bo), LastScore(instance, wo))

\* exactly one observation on the instance, a score gap between an owner with
\* the minimum score and an owner with the maximum score
OneGapObservation(instance) ==
    /\ Cardinality(ObservationsOn(instance)) = 1
    /\ \A k \in ObservationsOn(instance) :
         /\ outliers.list[k].kind = "gap"
         /\ outliers.list[k].best.bestOwner \in AttemptingOwners(instance)
         /\ outliers.list[k].best.worstOwner \in AttemptingOwners(instance)
         /\ HoldsMinimum(instance, outliers.list[k].best.bestOwner)
         /\ HoldsMaximum(instance, outliers.list[k].best.worstOwner)
         /\ outliers.list[k].best.bestResult
              = LastScore(instance, outliers.list[k].best.bestOwner)
         /\ outliers.list[k].best.worstResult
              = LastScore(instance, outliers.list[k].best.worstOwner)

\* C21: an instance that all of its two or more owners solved has a score-gap
\* observation exactly when (worst - best) / best is above 20 %, the gap being
\* infinite for a best of 0 and a worst above 0 and 0 when both are 0, or when
\* best is 0 and worst above 10; the observation names an owner with the
\* minimum score as the better and one with the maximum score as the worse.
\* Instances crowded out by five earlier observations are left aside.
C21_GapObservedIffAboveFifth ==
    outliers.called =>
      \A instance \in InstancesOf(data) :
        AllSolved(instance) =>
          IF GapRuleOn(instance)
          THEN OneGapObservation(instance) \/ CrowdedOut(instance)
          ELSE ObservationsOn(instance) = {}

\* the score gap for which the loop makes an observation: the quotient for a
\* best above 0, and otherwise any worst above 0
MakesGapObservation(b, w) ==
    IF b.m > 0 THEN RelativeGapAboveFifth(b, w) ELSE w.m > 0

\* an instance qualifies when the loop makes an observation for it
Qualifies(instance) ==
    \/ SolvedAndUnsolved(instance)
    \/ /\ AllSolved(instance)
       /\ \E bo, wo \in AttemptingOwners(instance) :
            /\ HoldsMinimum(instance, bo)
            /\ HoldsMaximum(instance, wo)
            /\ MakesGapObservation(LastScore(instance, bo), LastScore(instance, wo))

QualifyingInstances == {instance \in InstancesOf(data) : Qualifies(instance)}

\* the qualifying instances that first appear before this one
QualifyingBefore(instance) ==
    {other \in QualifyingInstances :
       Lowest(PositionsOf(other)) < Lowest(PositionsOf(instance))}

\* C22: at most 5 observations are returned, at most one per instance, and they
\* are those of the first five qualifying instances, in the order in which the
\* instances first appear in the record list
C22_FirstFiveInOrder ==
    outliers.called =>
      /\ Len(outliers.list) <= 5
      /\ \A j, k \in 1..Len(outliers.list) :
           outliers.list[j].instance = outliers.list[k].instance => j = k
      /\ Len(outliers.list) = IF Cardinality(QualifyingInstances) > 5 THEN 5
                              ELSE Cardinality(QualifyingInstances)
      /\ \A k \in 1..Len(outliers.list) :
           /\ outliers.list[k].instance \in QualifyingInstances
           /\ Cardinality(QualifyingBefore(outliers.list[k].instance)) = k - 1

\* six instances qualify, of both kinds, and the sixth has no observation
C22_Witness ==
    /\ outliers.called
    /\ Cardinality(QualifyingInstances) = 6
    /\ Len(outliers.list) = 5
    /\ \E j, k \in 1..5 : outliers.list[j].kind = "gap" /\ outliers.list[k].kind = "solvedUnsolved"
    /\ \E instance \in QualifyingInstances :
         /\ Cardinality(QualifyingBefore(instance)) = 5
         /\ ObservationsOn(instance) = {}

\* the list without the records that a later record of the same instance and
\* owner follows
RECURSIVE KeepLast(_)
KeepLast(items) ==
    IF items = <<>> THEN <<>>
    ELSE IF \E k \in 2..Len(items) :
              /\ items[k].instance = items[1].instance
              /\ items[k].entryOwner = items[1].entryOwner
    THEN KeepLast(Tail(items))
    ELSE <<Head(items)>> \o KeepLast(Tail(items))

ObservationsFor(list, instance) ==
    {list[k] : k \in {j \in 1..Len(list) : list[j].instance = instance}}

Unordered(o) ==
    [ instance |-> o.instance, kind |-> o.kind,
      solved |-> Range(o.solved), unsolved |-> Range(o.unsolved),
      bestResult |-> o.best.bestResult, worstResult |-> o.best.worstResult ]

UnorderedFor(list, instance) == {Unordered(o) : o \in ObservationsFor(list, instance)}

----------------------------------------------------------------------------
(* Further claims about calculateUnifiedMetrics, checked under SpecMetrics  *)

\* a record counts as solved when it is not marked unsolved and has a score
SolvedRecord(item) == item.isUnsolved = FALSE /\ item.score # Null
SolvedRecordsOf(items, owner) == {k \in RecordsOf(items, owner) : SolvedRecord(items[k])}

\* the sum of the scores of the records at the positions S, as a fraction p / q;
\* a score that is not a number makes the sum not a number
RECURSIVE ScoreSum(_, _)
ScoreSum(items, S) ==
    IF S = {} THEN [t |-> "num", p |-> 0, q |-> 1]
    ELSE LET k == CHOOSE j \in S : TRUE
             rest == ScoreSum(items, S \ {k})
         IN  IF rest.t # "num" \/ items[k].score.t # "num" THEN [t |-> "nan", p |-> 0, q |-> 1]
             ELSE [ t |-> "num",
                    p |-> rest.p * Pow10(items[k].score.e) + items[k].score.m * rest.q,
                    q |-> rest.q * Pow10(items[k].score.e) ]

\* a number of the program is the fraction
IsFraction(number, fraction) ==
    IF fraction.t = "num"
    THEN number.t = "num" /\ number.m * fraction.q = fraction.p * Pow10(number.e)
    ELSE number.t = "nan"

\* a quotient of the program is the fraction divided by n
IsFractionOver(quotient, fraction, n) ==
    IF fraction.t = "num"
    THEN quotient.t = "num" /\ quotient.p * fraction.q * n = fraction.p * quotient.q
    ELSE quotient.t = "nan"

\* C24: the keys of the result are the owners of the records; for each owner,
\* totalProblems is the number of the owner's records, solvedCount the number of
\* the solved ones, totalScore the sum of their scores, and avgScore is
\* totalScore / solvedCount when solvedCount is above 0
C24_OwnerTotals ==
    metrics.called =>
      /\ DOMAIN metrics.ownerPerformance = OwnersOf(data)
      /\ \A owner \in OwnersOf(data) :
           /\ metrics.ownerPerformance[owner].totalProblems
                = Cardinality(RecordsOf(data, owner))
           /\ metrics.ownerPerformance[owner].solvedCount
                = Cardinality(SolvedRecordsOf(data, owner))
           /\ IsFraction(metrics.ownerPerformance[owner].totalScore,
                         ScoreSum(data, SolvedRecordsOf(data, owner)))
           /\ SolvedRecordsOf(data, owner) # {} =>
                IsFractionOver(metrics.ownerPerformance[owner].avgScore,
                               ScoreSum(data, SolvedRecordsOf(data, owner)),
                               Cardinality(SolvedRecordsOf(data, owner)))

\* an owner has two solved records with scores 1 and 2 and an unsolved one: 3
\* problems, 2 solved, total 3, average 3/2
C24_Witness ==
    /\ metrics.called
    /\ \E owner \in OwnersOf(data) :
         /\ Cardinality(RecordsOf(data, owner)) = 3
         /\ metrics.ownerPerformance[owner].totalProblems = 3
         /\ metrics.ownerPerformance[owner].solvedCount = 2
         /\ metrics.ownerPerformance[owner].totalScore = Num(3)
         /\ metrics.ownerPerformance[owner].avgScore = Ratio(3, 2)

\* the owner's solved records with numCustomers n
SolvedOfSize(items, owner, n) ==
    {k \in SolvedRecordsOf(items, owner) : items[k].numCustomers = n}

\* the sizes that occur in the records, present or not
SizesOf(items) == {items[k].numCustomers : k \in 1..Len(items)}

\* C25: for every owner, bySize has an entry for a size n exactly when the owner
\* has a solved record with numCustomers n; its count is the number of these
\* records and its score the sum of their scores; records without numCustomers
\* and unsolved records are in no entry
C25_BySize ==
    metrics.called =>
      \A owner \in OwnersOf(data) :
        /\ DOMAIN metrics.ownerPerformance[owner].bySize
             = {n \in SizesOf(data) \ {Null} : SolvedOfSize(data, owner, n) # {}}
        /\ \A n \in DOMAIN metrics.ownerPerformance[owner].bySize :
             /\ metrics.ownerPerformance[owner].bySize[n].count
                  = Cardinality(SolvedOfSize(data, owner, n))
             /\ IsFraction(metrics.ownerPerformance[owner].bySize[n].score,
                           ScoreSum(data, SolvedOfSize(data, owner, n)))

\* an owner solved an instance of size 5 with 1 and with 2 and one of size 0
C25_Witness ==
    /\ metrics.called
    /\ \E owner \in OwnersOf(data) :
         /\ DOMAIN metrics.ownerPerformance[owner].bySize = {Num(0), Num(5)}
         /\ metrics.ownerPerformance[owner].bySize[Num(5)] = [score |-> Num(3), count |-> 2]
         /\ metrics.ownerPerformance[owner].bySize[Num(0)] = [score |-> Num(2), count |-> 1]

\* an owner has an unsolved record of size 5 and a solved one without a size,
\* and no entry in bySize
C25_WitnessNone ==
    /\ metrics.called
    /\ \E owner \in OwnersOf(data) :
         /\ \E k \in RecordsOf(data, owner) :
              data[k].isUnsolved /\ data[k].numCustomers = Num(5)
         /\ \E k \in SolvedRecordsOf(data, owner) : data[k].numCustomers = Null
         /\ DOMAIN metrics.ownerPerformance[owner].bySize = {}

----------------------------------------------------------------------------
(* Further claims about the uploader and the store, checked under Spec      *)

\* C26: whatever the drops, removals and clears so far, every record of the store
\* has a sourceName that the sources map lists, so that its source can be removed
C26_StoredRecordsListed ==
    \A k \in 1..Len(masterData) : MapHas(sources, masterData[k].sourceName)

\* C27: whatever the drops and removals so far, every source listed with status
\* 'success' has all of its parsed records in the store
C27_ListedSourcesStored ==
    \A f \in Files :
      (MapHas(sources, f.name) /\ sources[f.name].status = "success") =>
        Range(ParsedRecords(f)) \subseteq Range(WithoutId(masterData))

\* Every awaited processFile resolves (file.text() of a dropped file settles), so
\* while a task is awaiting, some task resumes: weak fairness of SomeTaskDone,
\* which is enabled exactly when a drop has a pending task
SomeTaskDone == \E d \in DOMAIN drops : \E file \in Files : TaskDone(d, file)
TaskPending == \E d \in DOMAIN drops : drops[d].pending # {}

FairSpec == Spec /\ ([]<>(~TaskPending) \/ []<><<SomeTaskDone>>_vars)

\* a drop accepted the file and its task is awaiting processFile
Accepted(f) == \E d \in DOMAIN drops : f.name \in drops[d].pending
Settled(f) == MapHas(sources, f.name) /\ sources[f.name].status \in {"success", "error"}

AllDropsDone == \A d \in DOMAIN drops : drops[d].done
NoneParsing == \A name \in DOMAIN sources : sources[name].status \notin {"parsing", "pending"}

\* the first half of C28: every accepted file reaches 'success' or 'error'
AcceptedFilesSettle == \A f \in Files : Accepted(f) ~> Settled(f)

\* C28: every file a drop accepted is at some time listed with status 'success'
\* or 'error', and whenever all the drops that started have completed no listed
\* source has status 'parsing' or 'pending', in whatever order the drops complete
C28_DropsSettle ==
    /\ AcceptedFilesSettle
    /\ [](AllDropsDone => NoneParsing)

----------------------------------------------------------------------------
(* The table and the metrics, checked under SpecOutliers                    *)

\* the instances whose cell in the owner's column is marked Best
BestCellsOf(owner) ==
    {instance \in InstancesOf(data) : comparison.cells[instance, owner].isBest}

\* C29: the table and the metrics agree on who is best: for every owner,
\* bestSolutions is the number of cells marked Best in the owner's column, also
\* when several records have the same owner and instance
C29_TableAgreesWithMetrics ==
    (comparison.called /\ metrics.called) =>
      \A owner \in OwnersOf(data) :
        metrics.ownerPerformance[owner].bestSolutions = Cardinality(BestCellsOf(owner))

----------------------------------------------------------------------------
(* Bounds of the metrics, checked under SpecMetrics                         *)

RECURSIVE SumOfTotalProblems(_, _)
SumOfTotalProblems(ownerPerformance, owners) ==
    IF owners = {} THEN 0
    ELSE LET owner == CHOOSE o \in owners : TRUE
         IN  ownerPerformance[owner].totalProblems
               + SumOfTotalProblems(ownerPerformance, owners \ {owner})

\* the instance has a solved record whose score is a finite number
HasFiniteScore(items, instance) ==
    \E k \in 1..Len(items) :
      /\ items[k].instance = instance
      /\ SolvedRecord(items[k])
      /\ items[k].score.t = "num"

\* the instance adds to the bestSolutions of some owner: the count of that owner
\* is higher than the count the same records give without the instance
CreditedToSomeOwner(instance) ==
    \E owner \in OwnersOf(data) :
      metrics.ownerPerformance[owner].bestSolutions
        > BestSolutionsOf(calculateUnifiedMetrics(WithoutInstance(data, instance)), owner)

\* the counts of every owner are ordered, and the problems of all owners are the
\* records
CountsOrdered ==
    metrics.called =>
      /\ \A owner \in DOMAIN metrics.ownerPerformance :
           /\ 0 <= metrics.ownerPerformance[owner].bestSolutions
           /\ metrics.ownerPerformance[owner].bestSolutions
                <= metrics.ownerPerformance[owner].solvedCount
           /\ metrics.ownerPerformance[owner].solvedCount
                <= metrics.ownerPerformance[owner].totalProblems
      /\ SumOfTotalProblems(metrics.ownerPerformance, DOMAIN metrics.ownerPerformance)
           = Len(data)

\* C30: for every owner 0 <= bestSolutions <= solvedCount <= totalProblems, the
\* totalProblems of all owners add up to the number of records, and every
\* instance with a solved record of finite score is credited to the
\* bestSolutions of at least one owner
C30_MetricsBounds ==
    /\ CountsOrdered
    /\ metrics.called =>
         \A instance \in InstancesOf(data) :
           HasFiniteScore(data, instance) => CreditedToSomeOwner(instance)

====
